------------------------------- MODULE Logger -------------------------------
(***************************************************************************)
(* The asynchronous logger (logger/logger.go), after Async: goroutines     *)
(* that log put messages into a bounded channel, one goroutine takes them  *)
(* out and writes them, and Flush asks it to empty the channel and stop.   *)
(*                                                                         *)
(* A message is numbered by the goroutine that logs it. Levels and formats *)
(* are left out. `written' is what the outputs have been handed; what the  *)
(* file adapter does with it is in FileLogger.                             *)
(***************************************************************************)
EXTENDS SequencesExt

CONSTANTS
    Writers,        \* the goroutines that log
    msgChanLen,     \* the capacity of the channel
    MaxMsgs,        \* bound on the messages of a goroutine
    MaxFlushes      \* bound on the calls of Flush

ASSUME LoggerAssumption ==
    /\ IsFiniteSet(Writers)
    /\ msgChanLen \in Nat \ {0}
    /\ MaxMsgs \in Nat /\ MaxFlushes \in Nat

VARIABLES
    msgChan,    \* the channel
    wg,         \* the counter of the WaitGroup
    pc,         \* where each goroutine is
    sent,       \* the number of messages each has put into the channel
    worker,     \* where the goroutine of startAsyncwrite is
    held,       \* the message it has taken out and not yet written
    written,    \* what the outputs have been handed
    flushes,    \* how many times Flush has been called
    exited      \* the process has ended

vars == <<msgChan, wg, pc, sent, worker, held, written, flushes, exited>>

Message == [by : Writers, n : 1 .. MaxMsgs]

Init ==
    /\ msgChan = <<>> /\ wg = 0
    /\ pc = [w \in Writers |-> "idle"]
    /\ sent = [w \in Writers |-> 0]
    /\ worker = "select" /\ held = <<>>
    /\ written = <<>> /\ flushes = 0
    /\ exited = FALSE

At(w, label)   == ~exited /\ pc[w] = label
Goto(w, label) == pc' = [pc EXCEPT ![w] = label]

-----------------------------------------------------------------------------
(* writeMsg: count the message, then put it into the channel. Fatal and    *)
(* Fatalf panic after that.                                                *)

(* Mutant: wg.Add is missing.                                              *)
writeMsgUncounted(w) ==
    /\ At(w, "idle")
    /\ sent[w] < MaxMsgs
    /\ \E label \in {"send", "sendFatal"} : Goto(w, label)
    /\ UNCHANGED <<msgChan, wg, sent, worker, held, written, flushes, exited>>

writeMsg(w) ==
    /\ At(w, "idle")
    /\ sent[w] < MaxMsgs
    /\ wg' = wg + 1
    /\ \E label \in {"send", "sendFatal"} : Goto(w, label)
    /\ UNCHANGED <<msgChan, sent, worker, held, written, flushes, exited>>

send(w) ==
    /\ At(w, "send") \/ At(w, "sendFatal")
    /\ Len(msgChan) < msgChanLen
    /\ msgChan' = Append(msgChan, [by |-> w, n |-> sent[w] + 1])
    /\ sent' = [sent EXCEPT ![w] = @ + 1]
    /\ Goto(w, IF pc[w] = "send" THEN "idle" ELSE "panic")
    /\ UNCHANGED <<wg, worker, held, written, flushes, exited>>

(* The panic ends the process, unless the goroutine is a handler of        *)
(* net/http, which recovers it.                                            *)
FatalPanics(w) ==
    /\ At(w, "panic")
    /\ \/ exited' = TRUE /\ UNCHANGED pc
       \/ Goto(w, "idle") /\ UNCHANGED exited
    /\ UNCHANGED <<msgChan, wg, sent, worker, held, written, flushes>>

(* Flush: hand "flush" to the worker, then wait for the WaitGroup.         *)
Flush(w) ==
    /\ At(w, "idle")
    /\ flushes < MaxFlushes
    /\ flushes' = flushes + 1
    /\ Goto(w, "signal")
    /\ UNCHANGED <<msgChan, wg, sent, worker, held, written, exited>>

signal(w) ==
    /\ At(w, "signal")
    /\ worker = "select" /\ held = <<>>
    /\ worker' = "flush"
    /\ Goto(w, "Wait")
    /\ UNCHANGED <<msgChan, wg, sent, held, written, flushes, exited>>

(* Mutant: Flush does not wait.                                            *)
WaitNot(w) ==
    /\ At(w, "Wait")
    /\ Goto(w, "idle")
    /\ UNCHANGED <<msgChan, wg, sent, worker, held, written, flushes, exited>>

Wait(w) ==
    /\ At(w, "Wait")
    /\ wg = 0
    /\ Goto(w, "idle")
    /\ UNCHANGED <<msgChan, wg, sent, worker, held, written, flushes, exited>>

-----------------------------------------------------------------------------
(* The worker: startAsyncwrite, and flush, after which it returns.         *)

(* Mutant: a flush does not empty the channel.                             *)
receiveInSelect ==
    /\ ~exited
    /\ worker = "select" /\ held = <<>>
    /\ msgChan # <<>>
    /\ held' = <<Head(msgChan)>>
    /\ msgChan' = Tail(msgChan)
    /\ UNCHANGED <<wg, pc, sent, worker, written, flushes, exited>>

receive ==
    /\ ~exited
    /\ worker \in {"select", "flush"} /\ held = <<>>
    /\ msgChan # <<>>
    /\ held' = <<Head(msgChan)>>
    /\ msgChan' = Tail(msgChan)
    /\ UNCHANGED <<wg, pc, sent, worker, written, flushes, exited>>

(* Mutant: the newest message overtakes the others.                        *)
writeToFront ==
    /\ ~exited
    /\ held # <<>>
    /\ written' = held \o written
    /\ held' = <<>>
    /\ wg' = wg - 1
    /\ UNCHANGED <<msgChan, pc, sent, worker, flushes, exited>>

(* writeToOutputs, wg.Done                                                 *)
writeToOutputs ==
    /\ ~exited
    /\ held # <<>>
    /\ written' = written \o held
    /\ held' = <<>>
    /\ wg' = wg - 1
    /\ UNCHANGED <<msgChan, pc, sent, worker, flushes, exited>>

(* The channel is empty: the outputs are flushed and the worker returns.   *)
flushOutputs ==
    /\ ~exited
    /\ worker = "flush" /\ held = <<>> /\ msgChan = <<>>
    /\ worker' = "returned"
    /\ UNCHANGED <<msgChan, wg, pc, sent, held, written, flushes, exited>>

-----------------------------------------------------------------------------
Work == receive \/ writeToOutputs \/ flushOutputs

Next == \/ Work
        \/ \E w \in Writers : \/ writeMsg(w) \/ send(w) \/ FatalPanics(w)
                              \/ Flush(w) \/ signal(w) \/ Wait(w)

Spec == Init /\ [][Next]_vars

(* The Go scheduler runs a goroutine that can run, and serves the ones     *)
(* that wait to send on a channel in the order in which they came.         *)
FairSpec == /\ Spec
            /\ WF_vars(Work)
            /\ \A w \in Writers : SF_vars(send(w)) /\ WF_vars(FatalPanics(w))

-----------------------------------------------------------------------------
(* Every variable has the type of its Go counterpart; the WaitGroup is     *)
(* never negative and the channel never over its capacity.                 *)
TypeOK ==
    /\ msgChan \in Seq(Message) /\ Len(msgChan) <= msgChanLen
    /\ wg \in Nat
    /\ pc \in [Writers -> {"idle", "send", "sendFatal", "panic", "signal", "Wait"}]
    /\ sent \in [Writers -> 0 .. MaxMsgs]
    /\ worker \in {"select", "flush", "returned"}
    /\ held = <<>> \/ (Len(held) = 1 /\ held \in Seq(Message))
    /\ written \in Seq(Message)
    /\ flushes \in 0 .. MaxFlushes
    /\ exited \in BOOLEAN

(* What has been logged, in the order in which it reaches the outputs.     *)
Logged == written \o held \o msgChan

(* No message is lost, repeated or overtaken by a later one of the same    *)
(* goroutine on its way through the channel, whatever Flush calls run      *)
(* beside it. One that comes after the worker has returned stays there.    *)
InOrder ==
    /\ \A w \in Writers : \A i \in 1 .. sent[w] :
         [by |-> w, n |-> i] \in ToSet(Logged)
    /\ \A p \in DOMAIN Logged : Logged[p].n <= sent[Logged[p].by]
    /\ \A p, q \in DOMAIN Logged :
         p < q /\ Logged[p].by = Logged[q].by => Logged[p].n < Logged[q].n

(* When Flush returns, all its caller has logged is written.               *)
FlushWrites ==
    [][\A w \in Writers :
         pc[w] = "Wait" /\ pc'[w] = "idle"
         => \A i \in 1 .. sent[w] : [by |-> w, n |-> i] \in ToSet(written')]_vars

(* Every log call returns, however full the channel is, unless a Flush has *)
(* ended the worker.                                                       *)
LogReturns ==
    \A w \in Writers :
      pc[w] \in {"send", "sendFatal"}
        ~> pc[w] \notin {"send", "sendFatal"} \/ exited \/ worker = "returned"
=============================================================================
