----------------------------- MODULE UserAssets -----------------------------
(***************************************************************************)
(* What an address owns: wearables and emotes, one by one or grouped by    *)
(* item, and names, on pages, each with a total from a statement of its    *)
(* own.  A client reads page after page while tokens are moved.            *)
(***************************************************************************)
EXTENDS Paging, FiniteSetsExt

CONSTANTS
  Assets,    \* the ids of the tokens, in their order: 1, 2, ...
  KindOf,    \* of each: wearable, emote or name
  UrnOf,     \* of each: its item
  CreatedAt, \* of each: when it was minted
  RarityOf,  \* the rarity_order (or, sorting by it, the name) of each item
  Wanted,    \* what is asked: [kind, grouped, sort, items, first], items what the filters let by
  MaxMoves   \* bound on the transfers

Kinds == {"wearable", "emote", "name"}

ASSUME UserAssetsAssumption ==
  /\ Assets \subseteq Nat /\ IsFiniteSet(Assets)
  /\ KindOf \in [Assets -> Kinds] /\ CreatedAt \in [Assets -> Nat]
  /\ MaxMoves \in Nat
  /\ \A t \in Assets : UrnOf[t] \in Nat /\ RarityOf[UrnOf[t]] \in Nat
  /\ \A f \in Wanted :
       /\ f.kind \in Kinds /\ f.grouped \in BOOLEAN /\ f.sort \in {"rarity", "newest", "oldest"}
       /\ f.first \in Nat \ {0}

VARIABLES
  held,   \* the tokens of the address
  moved,  \* per token: when it was last transferred
  moves,  \* the transfers so far, which is the time
  walk    \* the client's pages

avars == <<held, moved, moves, walk>>

Still == [at |-> "idle"]

Owned(H, f) == {t \in H : KindOf[t] = f.kind /\ UrnOf[t] \in f.items}
\* GROUP BY urn; the name, category and rarity go with it.
Groups(H, f) == {UrnOf[t] : t \in Owned(H, f)}
Units(H, f) == IF f.grouped THEN Groups(H, f) ELSE Owned(H, f)
Moved(f, u) == {moved[t] : t \in {x \in Owned(held, f) : UrnOf[x] = u}}

\* As a bug would have it: names are ordered as the others.
TokenByAge(f, a, b) == CreatedAt[a] > CreatedAt[b]
\* Tokens: wearables and emotes by created_at, which others share; names by id.
TokenBefore(f, a, b) ==
  IF f.kind = "name" THEN a < b ELSE CreatedAt[a] > CreatedAt[b]
\* Groups: buildOrderByClause, the urn last.
GroupBefore(f, a, b) ==
  LET By(x, y, tie) == x > y \/ (x = y /\ tie) IN
  CASE f.sort = "rarity" -> By(RarityOf[a], RarityOf[b], a < b)
    [] f.sort = "newest" -> By(Max(Moved(f, a)), Max(Moved(f, b)), a < b)
    [] f.sort = "oldest" -> By(Min(Moved(f, b)), Min(Moved(f, a)), a > b)
Before(f, a, b) == IF f.grouped THEN GroupBefore(f, a, b) ELSE TokenBefore(f, a, b)

AssetPages(f, skip) ==
  {Slice(s, f.first, skip) : s \in Sorted(Units(held, f), LAMBDA a, b : Before(f, a, b))}

AssetsInit ==
  /\ held \in SUBSET Assets
  /\ moved = [t \in Assets |-> 0] /\ moves = 0
  /\ walk = Still

Walks == walk.at \in {"data", "count"}
\* What the transfer of t means to a walk: see the property.
Watched(t) ==
  IF ~Walks \/ t \notin Owned(held \cup held', walk.ask) THEN walk
  ELSE [walk EXCEPT !.kept = @ \cap Units(held', walk.ask),
                    !.left = @ \/ t \in held,
                    !.came = @ \/ t \notin held,
                    !.dated = @ \/ walk.ask.sort # "rarity"]
\* External: the squid moves a token to the address, or from it.
Transfer(t) ==
  /\ moves < MaxMoves
  /\ moves' = moves + 1
  /\ moved' = [moved EXCEPT ![t] = moves + 1]
  /\ held' = IF t \in held THEN held \ {t} ELSE held \cup {t}
  /\ walk' = Watched(t)

\* A client begins with the first page.
Ask(f) ==
  /\ walk = Still
  /\ walk' = [at |-> "data", ask |-> f, skip |-> 0, got |-> <<>>, kept |-> Units(held, f),
              left |-> FALSE, came |-> FALSE, dated |-> FALSE]
  /\ UNCHANGED <<held, moved, moves>>

\* The first of the two statements.
ReadData ==
  /\ walk.at = "data"
  /\ \E page \in AssetPages(walk.ask, walk.skip) :
       walk' = [walk EXCEPT !.at = "count", !.got = @ \o page]
  /\ UNCHANGED <<held, moved, moves>>

CountOf(f) == Cardinality(Units(held, f))
\* createPaginatedResponse: the client goes on to the last of the pages of this response.
Page(f, skip) == skip \div f.first + 1
Pages(f, total) == (total + f.first - 1) \div f.first
ReadCount ==
  /\ walk.at = "count"
  /\ LET f == walk.ask IN
     walk' = IF Page(f, walk.skip) < Pages(f, CountOf(f))
             THEN [walk EXCEPT !.at = "data", !.skip = @ + f.first]
             ELSE [walk EXCEPT !.at = "done"]
  /\ UNCHANGED <<held, moved, moves>>

AssetsNext == ReadData \/ ReadCount \/ (\E t \in Assets : Transfer(t)) \/ (\E f \in Wanted : Ask(f))

AssetsSpec == AssetsInit /\ [][AssetsNext]_avars

-----------------------------------------------------------------------------
\* Tokens minted in one block have no order.
Ties(f) == /\ ~f.grouped /\ f.kind # "name"
           /\ \E a, b \in Assets : a # b /\ KindOf[a] = f.kind /\ KindOf[b] = f.kind
                                   /\ CreatedAt[a] = CreatedAt[b]

(* A client that reads to the last page misses something the address had   *)
(* all the while only if something left it, and sees something twice only  *)
(* if something came, unless the order itself is at fault: tokens of one   *)
(* block have none, and a group by date moves with each of its tokens.     *)
WalksLoseNothing ==
  walk.at = "done" =>
    LET sound == ~Ties(walk.ask) /\ ~(walk.ask.grouped /\ walk.dated) IN
    /\ sound /\ ~walk.left => walk.kept \subseteq Range(walk.got)
    /\ sound /\ ~walk.came => IsInjective(walk.got)
=============================================================================
