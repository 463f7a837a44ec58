------------------------------- MODULE Journal -------------------------------
(***************************************************************************)
(* What the on-board diagnostic log promises, whatever the flash chip, the *)
(* writer and the power supply do: a set of records that only grows, one   *)
(* whole record at a time, in the order in which the boots and their       *)
(* acquisitions happened, without a gap inside a boot, and in which every  *)
(* record the firmware counted as written stays.                           *)
(*                                                                         *)
(* A record is [boot, counter]: the boot that took the sample and its      *)
(* acquisition counter.                                                    *)
(***************************************************************************)
EXTENDS Integers

VARIABLES log,       \* the records a host recovers from the flash image
          acked      \* the records the firmware counted in `written`

jvars == <<log, acked>>

JInit == log = {} /\ acked = {}

\* A record joins the log: it is later than all the others, and the next of its boot.
Store(r) ==
  /\ \A q \in log : q.boot <= r.boot
  /\ {q.counter : q \in {x \in log : x.boot = r.boot}} = 1 .. r.counter - 1
  /\ r.counter > 0
  /\ log' = log \cup {r}
  /\ UNCHANGED acked

\* The firmware counts a record that is already in the log.
Ack(r) ==
  /\ r \in log \ acked
  /\ acked' = acked \cup {r}
  /\ UNCHANGED log

JNext == (\E r \in log' \ log : Store(r)) \/ (\E r \in acked' \ acked : Ack(r))

JSpec == JInit /\ [][JNext]_jvars
==============================================================================
