------------------------------ MODULE AtomicFile ------------------------------
(***************************************************************************)
(* What the other models take one write of a cache file to be: it happens  *)
(* at one instant, readers see a whole value that was there while they     *)
(* looked, and an answer tells the truth about what the write has done.    *)
(***************************************************************************)
CONSTANTS Process, Value, None

VARIABLES
    discipline, \* "mutable", "once" (never changes) or "blob" (may be removed)
    value,      \* None, or what the file holds
    pending,    \* pending[p]: None, or the operation p is in
    answer      \* answer[p]: what the last operation of p returned

Nothing == "nothing"
Operation(write, arg) == [write |-> write, arg |-> arg, did |-> FALSE, saw |-> Nothing]

Init ==
    /\ discipline \in {"mutable", "once", "blob"}
    /\ value = None
    /\ pending = [p \in Process |-> None]
    /\ answer = [p \in Process |-> None]

Invoke(p, write, arg) ==
    /\ pending[p] = None
    /\ pending' = [pending EXCEPT ![p] = Operation(write, arg)]
    /\ answer' = [answer EXCEPT ![p] = None]
    /\ UNCHANGED <<discipline, value>>

Look(p) ==
    /\ pending[p] # None
    /\ pending' = [pending EXCEPT ![p].saw = value]
    /\ UNCHANGED <<discipline, value, answer>>

Put(p) ==
    /\ pending[p] # None /\ pending[p].write /\ ~pending[p].did
    /\ discipline = "mutable" \/ value = None
    /\ value' = pending[p].arg
    /\ pending' = [pending EXCEPT ![p].did = TRUE, ![p].saw = value']
    /\ UNCHANGED <<discipline, answer>>

(* The collector, and another program that writes a mutable file.          *)
Remove ==
    /\ discipline = "blob" /\ value' = None
    /\ UNCHANGED <<discipline, pending, answer>>

Overwrite ==
    /\ discipline = "mutable" /\ value' \in Value
    /\ UNCHANGED <<discipline, pending, answer>>

(* done: the file held the value; existing: it held some value; may: the   *)
(* write may have happened.                                                *)
Truthful(o, a) ==
    CASE a.outcome = "done" -> o.write /\ o.saw = o.arg
      [] a.outcome = "existing" -> ~o.did /\ o.saw \in Value
      [] a.outcome = "conflict" -> ~o.did /\ o.saw \in Value \ {o.arg}
      [] a.outcome = "read" -> ~o.write /\ o.saw = a.value
      [] a.outcome = "error" -> o.did => a.may
      [] a.outcome = "crashed" -> TRUE

(* An answer may rest on what the file holds as it is given.               *)
Answer(p, a) ==
    /\ pending[p] # None
    /\ \/ Truthful(pending[p], a)
       \/ Truthful([pending[p] EXCEPT !.saw = value], a)
    /\ pending' = [pending EXCEPT ![p] = None]
    /\ answer' = [answer EXCEPT ![p] = a]
    /\ UNCHANGED <<discipline, value>>

Outcome == {"done", "existing", "conflict", "read", "error", "crashed"}
Answers == [outcome : Outcome, value : Value \cup {None}, may : BOOLEAN]

Next ==
    \/ \E p \in Process :
           \/ \E arg \in Value : Invoke(p, TRUE, arg)
           \/ Invoke(p, FALSE, None)
           \/ Look(p) \/ Put(p)
           \/ \E a \in Answers : Answer(p, a)
    \/ Remove \/ Overwrite

Spec == Init /\ [][Next]_<<discipline, value, pending, answer>>
==============================================================================
