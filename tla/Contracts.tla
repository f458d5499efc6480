----------------------------- MODULE Contracts -----------------------------
(***************************************************************************)
(* The contracts of the marketplace and of every approved collection.  The *)
(* collections are counted, read page by page and cached for an hour; the  *)
(* squid approves and rejects collections meanwhile, and loads overlap.    *)
(***************************************************************************)
EXTENDS Paging

CONSTANTS
  Collections,
  NameOf,       \* the name each is ordered by
  Marketplaces, \* the contracts that are part of the program, in order
  Asks,         \* what may be asked: [collections, first, skip]
  Loaders,      \* the calls
  PageSize,
  MaxChanges    \* bound on the changes the squid makes

ASSUME ContractsAssumption ==
  /\ NameOf \in [Collections -> Nat]
  /\ IsFiniteSet(Collections)
  /\ PageSize \in Nat \ {0} /\ MaxChanges \in Nat
  /\ \A f \in Asks : f.collections \in BOOLEAN /\ f.first \in Nat /\ f.skip \in Nat

VARIABLES
  approved, \* the collections with is_approved
  listCache,\* the list that is cached, if one is: a set
  load,     \* the calls
  changes   \* how often the squid changed something

cvars == <<approved, listCache, load, changes>>

At(l) == load[l].at
\* Of a walk: what was approved all through it, and whether something came or went.
NoWalk == [at |-> "idle"]
Walk(f, at, total) ==
  [at |-> at, ask |-> f, total |-> total, skip |-> 0, got |-> <<>>,
   kept |-> approved, came |-> 0, gone |-> 0]
Walking(l) == At(l) \in {"paging", "storing"}

ContractsInit ==
  /\ approved \in SUBSET Collections
  /\ listCache = {} /\ changes = 0
  /\ load = [l \in Loaders |-> NoWalk]

\* External: the squid.
Change(c) ==
  /\ changes < MaxChanges
  /\ changes' = changes + 1
  /\ approved' = IF c \in approved THEN approved \ {c} ELSE approved \cup {c}
  /\ load' = [l \in Loaders |->
       IF ~Walking(l) THEN load[l]
       ELSE [load[l] EXCEPT !.kept = @ \ {c},
                            !.gone = IF c \in approved THEN @ + 1 ELSE @,
                            !.came = IF c \in approved THEN @ ELSE @ + 1]]
  /\ UNCHANGED listCache

\* getContracts: first 0 is no limit.
ContractsPage(f, list) ==
  LET all == Marketplaces \o list IN
  IF f.first = 0 THEN Slice(all, Len(all), f.skip) ELSE Slice(all, f.first, f.skip)

Done(f, list) == [at |-> "done", list |-> list,
                  data |-> ContractsPage(f, list), answered |-> Len(Marketplaces) + Len(list)]
\* getContracts looks for collections, and getAllCollectionContracts into the cache.
AskContracts(l, f) ==
  /\ At(l) = "idle"
  /\ load' = [load EXCEPT ![l] =
       IF ~f.collections THEN Done(f, <<>>)
       ELSE IF listCache # {} THEN Done(f, CHOOSE list \in listCache : TRUE)
       ELSE [at |-> "counting", ask |-> f]]
  /\ UNCHANGED <<approved, listCache, changes>>

\* The count, which is not made again; none is not cached.
CountCollections(l) ==
  /\ At(l) = "counting"
  /\ load' = [load EXCEPT ![l] =
       IF approved = {} THEN Done(load[l].ask, <<>>)
       ELSE Walk(load[l].ask, "paging", Cardinality(approved))]
  /\ UNCHANGED <<approved, listCache, changes>>

\* ORDER BY name, which other collections may have.
NameBefore(a, b) == NameOf[a] < NameOf[b]
CollectionPages(first, skip) == {Slice(s, first, skip) : s \in Sorted(approved, NameBefore)}

\* As a bug would have it: the next page begins at the last row of this one.
OverlapPages(skip) == skip + PageSize - 1
NextSkip(skip) == skip + PageSize
ReadPage(l) ==
  /\ At(l) = "paging"
  /\ \E page \in CollectionPages(PageSize, load[l].skip) :
       load' = [load EXCEPT ![l].got = @ \o page,
                            ![l].skip = NextSkip(@),
                            ![l].at = IF NextSkip(load[l].skip) < load[l].total THEN @ ELSE "storing"]
  /\ UNCHANGED <<approved, listCache, changes>>

Stored(w) ==
  [at |-> "stored", list |-> w.got, data |-> ContractsPage(w.ask, w.got),
   total |-> w.total, kept |-> w.kept, came |-> w.came, gone |-> w.gone]
\* The last load that is stored is the one that is cached.
StoreList(l) ==
  /\ At(l) = "storing"
  /\ listCache' = {load[l].got}
  /\ load' = [load EXCEPT ![l] = Stored(@)]
  /\ UNCHANGED <<approved, changes>>

\* An hour passes.
CacheExpires ==
  /\ listCache # {}
  /\ listCache' = {}
  /\ UNCHANGED <<approved, load, changes>>

ContractsNext ==
  \/ CacheExpires
  \/ \E c \in Collections : Change(c)
  \/ \E l \in Loaders :
       CountCollections(l) \/ ReadPage(l) \/ StoreList(l) \/ \E f \in Asks : AskContracts(l, f)

ContractsSpec == ContractsInit /\ [][ContractsNext]_cvars

-----------------------------------------------------------------------------
Tied(S) == \E a, b \in S : a # b /\ NameOf[a] = NameOf[b]
\* The pages that were read, in rows.
Reach(w) == ((w.total + PageSize - 1) \div PageSize) * PageSize

(* What a load may get wrong.  With names that differ, a collection that   *)
(* was approved all the while is missing only if another went, or if so    *)
(* many came that they do not fit behind the last page that the count      *)
(* calls for; and one is there twice only if another came.                 *)
LoadsLoseNothing ==
  \A l \in Loaders : At(l) = "stored" /\ ~Tied(Collections) =>
    LET w == load[l] IN
    /\ w.gone = 0 /\ w.total + w.came <= Reach(w) => w.kept \subseteq Range(w.list)
    /\ w.came = 0 => IsInjective(w.list)
=============================================================================
