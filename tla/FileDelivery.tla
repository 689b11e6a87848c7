---------------------------- MODULE FileDelivery ----------------------------
(***************************************************************************)
(* What a TFTP transfer promises, without packets, blocks, sessions and    *)
(* time-outs: the copy of the file only ever grows at its end, by the next *)
(* piece of the file as long as the transfer is sound; the command counts  *)
(* pieces that are in the copy, ends as soon as it has counted them all,   *)
(* and otherwise may end at any time, reporting success or not.            *)
(***************************************************************************)
EXTENDS Integers, Sequences

CONSTANTS
    Full,       \* pieces of the file but the last
    Pieces      \* what a transfer that is not sound may add

VARIABLES
    copy,       \* the pieces that have arrived, in the order of the copy
    counted,    \* the pieces the command has counted
    report,     \* "none", then "ok" or "failed"
    sound       \* nothing has spoiled the transfer

vars == <<copy, counted, report, sound>>

Init == copy = <<>> /\ counted = 0 /\ report = "none" /\ sound \in BOOLEAN

Store ==
    /\ Len(copy) <= Full
    /\ \E piece \in IF sound THEN {Len(copy) + 1} ELSE Pieces :
         copy' = Append(copy, piece)
    /\ UNCHANGED sound

\* A transfer that is not sound may take a piece for the last one.
Count ==
    /\ report = "none" /\ counted' = counted + 1 /\ counted' <= Len(copy')
    /\ \/ report' = "ok" /\ (sound => counted' = Full + 1)
       \/ report' = "none" /\ counted' <= Full

Deliver == Store /\ UNCHANGED <<counted, report>>
Acknowledge == Count /\ UNCHANGED <<copy, sound>>
Receive == Store /\ Count

GiveUp ==
    /\ report = "none" /\ report' \in {"ok", "failed"}
    /\ UNCHANGED <<copy, counted, sound>>

Spoil == sound /\ sound' = FALSE /\ UNCHANGED <<copy, counted, report>>

Next == Deliver \/ Acknowledge \/ Receive \/ GiveUp \/ Spoil

Spec == Init /\ [][Next]_vars
============================================================================
