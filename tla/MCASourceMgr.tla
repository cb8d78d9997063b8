--------------------------- MODULE MCASourceMgr ---------------------------
(* A timeout source at the priority of the wake-up source and an idle one  *)
(* behind it; an idle source between the two and a source with a file      *)
(* descriptor take part in some of the runs.                               *)
EXTENDS ASourceMgr

CONSTANTS t1, t2, tm, idle, high, fd

AllPriorities == {0, 10, 30}
MCprio == [s \in Sources \cup {Wakeup} |->
              IF s = idle THEN 30 ELSE IF s = high THEN 10 ELSE 0]
MCkind == [s \in Sources |->
              IF s = tm THEN "timeout" ELSE IF s = fd THEN "fd" ELSE "idle"]

LoopCalls == {"run", "add", "remove", "setReadyTime", "quit"}
AllCalls  == LoopCalls \cup {"iterate", "try", "pending", "invoke", "removeAll"}

EveryLoop  == [t \in Threads |-> LoopCalls]
OneLoop    == [t \in Threads |-> IF t = t1 THEN AllCalls ELSE LoopCalls \cup {"invoke"}]
AskPending == [t \in Threads |-> {"iterate", "add", "pending"}]
=============================================================================
