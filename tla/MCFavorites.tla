---------------------------- MODULE MCFavorites ----------------------------
EXTENDS Favorites, TLC

CONSTANTS ann, bob, hat, shared

\* Ann owns the list; Bob asks for the same things, and picks.
MCCalls ==
    [op : {"pick", "unpick"}, user : {bob}, list : {DefaultList, shared}, item : {hat}]
    \cup [op : {"bulk"}, user : {bob}, item : {hat},
          pickedFor : {{}, {DefaultList, shared}}, unpickedFrom : {{}, {shared}}]
    \cup [op : {"create"}, user : {ann}, private : BOOLEAN]
    \cup [op : {"update"}, user : {ann, bob}, list : {shared}, private : {TRUE, Undefined}]
    \cup [op : {"update"}, user : {bob}, list : {DefaultList}, private : {FALSE}]
    \cup [op : {"delete"}, user : {ann, bob}, list : {DefaultList, shared}]
    \cup [op : {"grant"}, user : {ann, bob}, list : {shared},
          permission : {"view", "edit"}, grantee : {bob}]
    \cup [op : {"grant"}, user : {bob}, list : {DefaultList},
          permission : {"edit"}, grantee : {Everyone}]
    \cup [op : {"revoke"}, user : {ann, bob}, list : {shared},
          permission : {"edit"}, grantee : {bob}]
=============================================================================
