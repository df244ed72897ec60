------------------------------ MODULE SharedLock ------------------------------
(***************************************************************************)
(* What a readers-writer lock promises: many threads read, or one writes.  *)
(* An upgrade without release turns the only reader into the writer, and   *)
(* nobody else holds the lock in between.                                  *)
(***************************************************************************)
CONSTANT Thread

VARIABLE held                  \* per thread: "none", "read" or "write"

Init == held = [t \in Thread |-> "none"]

Set(t, from, to) == held[t] = from /\ held' = [held EXCEPT ![t] = to]

OthersHold(t, modes) == \E u \in Thread \ {t} : held[u] \in modes

AcquireRead(t)  == Set(t, "none", "read") /\ ~OthersHold(t, {"write"})
AcquireWrite(t) == Set(t, "none", "write") /\ ~OthersHold(t, {"read", "write"})
Upgrade(t)      == Set(t, "read", "write") /\ ~OthersHold(t, {"read", "write"})
Downgrade(t)    == Set(t, "write", "read")
ReleaseRead(t)  == Set(t, "read", "none")
ReleaseWrite(t) == Set(t, "write", "none")

Next == \E t \in Thread :
    \/ AcquireRead(t) \/ AcquireWrite(t) \/ Upgrade(t)
    \/ Downgrade(t) \/ ReleaseRead(t) \/ ReleaseWrite(t)

Spec == Init /\ [][Next]_held
===============================================================================
