----------------------------- MODULE TxSchedule ---------------------------
(***************************************************************************)
(* TxPath implements Schedule: the packets in the JIT queue are the        *)
(* schedule, whatever their order, the one that thread_jit has taken out   *)
(* is in its hand until lgw_send returns.                                  *)
(***************************************************************************)
EXTENDS TxPath

Queued == {nodes[j] : j \in 1 .. Len(nodes)}
IsDownlink(p) == p.pkt_type \in DownlinkTypes

Promise == INSTANCE Schedule WITH
    Compatible <- Apart,
    Downlink <- IsDownlink,
    MaxPkts <- JIT_QUEUE_MAX,
    sched <- Queued,
    hand <- IF jit_pc \in {"status", "send"} THEN {jit_pkt} ELSE {},
    radio <- IF tx_status = "FREE" THEN {} ELSE {tx_pkt},
    answer <- CASE tx_ack = "none" -> "none"
                [] tx_ack \in {"OK", "TX_POWER"} -> "queued"
                [] OTHER -> "refused"

(* The two threads, the array with its sorts and its index passed from     *)
(* jit_peek to jit_dequeue, and the TX state machine implement the         *)
(* schedule: no packet is sent twice, or without having been admitted, or  *)
(* lost but by a drop; a TX_ACK without an error and the admission of a    *)
(* downlink imply each other.                                              *)
ImplementsSchedule == Promise!Spec
=============================================================================
