----------------------------- MODULE AttemptLog -----------------------------
(***************************************************************************)
(* What the application journal promises about one attempt, whoever asks   *)
(* and however often: it is prepared once, dispatched at most once,        *)
(* interrupted at most once, settled only if it had been dispatched, and   *)
(* nothing but deletion follows its settlement.                            *)
(***************************************************************************)
CONSTANT Attempts

VARIABLES phase,   \* phase[a]: where the attempt stands
          sent     \* sent[a]: its dispatch was recorded

Phases == {"none", "prepared", "dispatched", "interrupted", "settled", "forgotten"}

TypeOK == phase \in [Attempts -> Phases] /\ sent \in [Attempts -> BOOLEAN]

Init == /\ phase = [a \in Attempts |-> "none"]
        /\ sent = [a \in Attempts |-> FALSE]

Become(a, p, s) == /\ phase' = [phase EXCEPT ![a] = p]
                   /\ sent' = [sent EXCEPT ![a] = s]

Prepare(a)   == phase[a] = "none" /\ Become(a, "prepared", FALSE)
Dispatch(a)  == phase[a] = "prepared" /\ Become(a, "dispatched", TRUE)
Interrupt(a) == phase[a] \in {"prepared", "dispatched"} /\ Become(a, "interrupted", sent[a])
Settle(a)    == /\ phase[a] \in {"dispatched", "interrupted"}
                /\ sent[a]
                /\ Become(a, "settled", TRUE)
Forget(a)    == phase[a] \notin {"none", "forgotten"} /\ Become(a, "forgotten", FALSE)

Next == \E a \in Attempts :
          Prepare(a) \/ Dispatch(a) \/ Interrupt(a) \/ Settle(a) \/ Forget(a)

Spec == Init /\ [][Next]_<<phase, sent>>
=============================================================================
