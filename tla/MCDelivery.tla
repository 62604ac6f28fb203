----------------------------- MODULE MCDelivery -----------------------------
(***************************************************************************)
(* Small instances of Delivery for TLC.                                    *)
(*                                                                         *)
(* Handover: two processes, which may be started for either of two         *)
(* consumers, and two tries of one operation, each with the event id its   *)
(* Execute drew.                                                           *)
(*                                                                         *)
(* Drain: one process over two books of which the consumer accepts only    *)
(* the second; the refused fact has the lowest id.                         *)
(***************************************************************************)
EXTENDS Delivery

CONSTANTS BookA, BookB, Main, Other

TwoBooks == <<BookB, BookA>>

HandoverBook == [e \in Events |-> BookA]
HandoverOp   == [e \in Events |-> "op"]
AcceptAll    == [c \in {Main, Other} |-> {BookA, BookB}]

DrainBook == [e \in Events |-> IF e = 1 THEN BookB ELSE BookA]
DrainOp   == [e \in Events |-> e]
AcceptA   == [c \in {Main} |-> {BookA}]
=============================================================================
