------------------------------ MODULE Dictionary ------------------------------
(***************************************************************************)
(* What header/hash_map.h promises of a map, with no table in sight: a     *)
(* partial function from keys to values, operated on one call at a time.   *)
(* A call is either answered in one step or is first issued (ret becomes   *)
(* Pending) and answered later; a pending call is the only one that can be *)
(* answered next.  Calls about storage (ensure_capacity, rehash, init) may *)
(* succeed or fail and never change the dictionary.                        *)
(***************************************************************************)
CONSTANTS Keys, Vals, NULL

VARIABLES dict,   \* the pairs stored: a function from some keys to values
          op,     \* the call being answered, or last answered
          arg,    \* its key-value pair
          ret     \* its answer

Pair == [key : Keys, val : Vals]
Dicts == UNION {[D -> Vals] : D \in SUBSET Keys}
NoPairs == [x \in {} |-> NULL]

Pending == [done |-> FALSE, ok |-> FALSE, pair |-> NULL]
Answer(b, p) == [done |-> TRUE, ok |-> b, pair |-> p]

Storage == {"init", "ensure", "rehash"}
Emptying == {"clear", "free"}
OnPairs == {"put", "put_if_absent", "replace", "remove", "get", "get_or_default"}

Stored(p) == IF p # NULL /\ p.key \in DOMAIN dict
               THEN [key |-> p.key, val |-> dict[p.key]] ELSE NULL

(* The dictionary with p's value at p's key.                               *)
With(p) == [x \in DOMAIN dict \cup {p.key} |->
              IF x = p.key THEN p.val ELSE dict[x]]
Without(p) == [x \in DOMAIN dict \ {p.key} |-> dict[x]]

Init == dict = NoPairs /\ op = "none" /\ arg = NULL /\ ret = Pending

Issue(o, p) == (ret = Pending => op = "none") /\ op' = o /\ arg' = p /\ ret' = Pending /\ dict' = dict

(* The answer of call o on p: nothing else may be pending.                 *)
Answers(o, p, b, q) ==
  /\ ret = Pending /\ op # "none" => op = o /\ arg = p
  /\ op' = o /\ arg' = p /\ ret' = Answer(b, q)

(* A pair is stored over the old one, which is handed back, or memory ran  *)
(* out and nothing changed.                                                *)
Put(p) ==
  \/ p = NULL /\ Answers("put", p, TRUE, NULL) /\ dict' = dict
  \/ p # NULL /\ Answers("put", p, TRUE, Stored(p)) /\ dict' = With(p)
  \/ p # NULL /\ Answers("put", p, FALSE, NULL) /\ dict' = dict

PutIfAbsent(p) ==
  \/ p = NULL /\ Answers("put_if_absent", p, TRUE, NULL) /\ dict' = dict
  \/ /\ p # NULL /\ Stored(p) = NULL
     /\ Answers("put_if_absent", p, TRUE, NULL) /\ dict' = With(p)
  \/ p # NULL /\ Answers("put_if_absent", p, FALSE, NULL) /\ dict' = dict

Replace(p) == /\ Answers("replace", p, Stored(p) # NULL, Stored(p))
              /\ dict' = IF Stored(p) # NULL THEN With(p) ELSE dict

Remove(p) == /\ Answers("remove", p, Stored(p) # NULL, Stored(p))
             /\ dict' = IF Stored(p) # NULL THEN Without(p) ELSE dict

Get(p) == Answers("get", p, Stored(p) # NULL, Stored(p)) /\ dict' = dict

GetOrDefault(p) ==
  LET found == IF Stored(p) # NULL THEN Stored(p) ELSE p
  IN  Answers("get_or_default", p, found # NULL, found) /\ dict' = dict

Empty(o) == Answers(o, NULL, TRUE, NULL) /\ dict' = NoPairs

Reserve(o) == \E b \in BOOLEAN : Answers(o, NULL, b, NULL) /\ dict' = dict

Next == \/ \E p \in Pair \cup {NULL} :
             \/ Put(p) \/ PutIfAbsent(p) \/ Replace(p)
             \/ Remove(p) \/ Get(p) \/ GetOrDefault(p)
             \/ \E o \in OnPairs : Issue(o, p)
        \/ \E o \in Storage : Reserve(o) \/ Issue(o, NULL)
        \/ \E o \in Emptying : Empty(o)

vars == <<dict, op, arg, ret>>

Spec == Init /\ [][Next]_vars
===============================================================================
