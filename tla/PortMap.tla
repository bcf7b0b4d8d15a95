------------------------------- MODULE PortMap -------------------------------
(***************************************************************************)
(* What a port-translating NAT promises, whatever list, marks and threads  *)
(* it is made of: a flow of the inner network keeps one outer port until   *)
(* it was idle for Expiry, no two flows hold a port at the same time, and  *)
(* a reply to a port reaches the flow that holds it.                       *)
(***************************************************************************)
EXTENDS Integers

CONSTANTS
  Flows,      \* inner (address, port) pairs
  Ports,      \* outer ports the NAT may hand out
  Expiry      \* idle time after which a binding may be given up

VARIABLES
  clock,
  bind,       \* bound flow -> [port, seen]: its port and when it was last used
  sent        \* the translation of the last packet let through

Init ==
  /\ clock = 0
  /\ bind = [f \in {} |-> [port |-> 0, seen |-> 0]]
  /\ sent = [dir |-> "none"]

PortsInUse == {bind[f].port : f \in DOMAIN bind}

(* A packet of a bound flow goes out, or comes back to it, and the idle    *)
(* time of the binding starts again with the packet's time stamp.          *)
Use(f, dir) ==
  /\ UNCHANGED clock
  /\ f \in DOMAIN bind
  /\ \E stamp \in bind[f].seen..clock :
       /\ sent' = [dir |-> dir, flow |-> f, port |-> bind[f].port, at |-> stamp]
       /\ bind' = [bind EXCEPT ![f].seen = stamp]

(* The first packet of a flow that is not bound takes a port nobody holds. *)
Bind(f, p) ==
  /\ UNCHANGED clock
  /\ f \notin DOMAIN bind
  /\ p \notin PortsInUse
  /\ \E stamp \in 0..clock :
       /\ sent' = [dir |-> "out", flow |-> f, port |-> p, at |-> stamp]
       /\ bind' = [g \in DOMAIN bind \cup {f} |->
                     IF g = f THEN [port |-> p, seen |-> stamp] ELSE bind[g]]

Expire(f) ==
  /\ UNCHANGED <<clock, sent>>
  /\ f \in DOMAIN bind
  /\ clock - bind[f].seen >= Expiry
  /\ bind' = [g \in DOMAIN bind \ {f} |-> bind[g]]

Tick == clock' = clock + 1 /\ UNCHANGED <<bind, sent>>

Next ==
  \/ \E f \in Flows :
       \/ \E dir \in {"out", "in"} : Use(f, dir)
       \/ \E p \in Ports : Bind(f, p)
       \/ Expire(f)
  \/ Tick

Spec == Init /\ [][Next]_<<clock, bind, sent>>
=============================================================================
