--------------------------- MODULE ModuleRegistry ---------------------------
(***************************************************************************)
(* What the service manager promises about the modules it manages, without *)
(* sockets, retries, lists or notifications.                               *)
(*                                                                         *)
(* A module joins on a connection, becomes active once every role it       *)
(* depends on is offered by a member, and leaves together with whatever    *)
(* would otherwise be left active without the roles it depends on.         *)
(***************************************************************************)

CONSTANTS
  Module,        \* modules that may join
  Conn,          \* connections they join on
  NoModule,      \* the connection has no member
  Role,          \* a role in one of its versions
  ModuleRoles,   \* the roles a module offers
  Dependencies   \* the roles a module depends on

VARIABLES
  member,        \* the module that has joined on a connection
  active         \* the connections whose member is active

vars == <<member, active>>

Members == {c \in Conn : member[c] # NoModule}

(***************************************************************************)
(* Every role the member on c depends on is offered by one of providers.   *)
(***************************************************************************)
SatisfiedBy(c, providers) ==
  \A r \in Dependencies[member[c]] :
    \E p \in providers : r \in ModuleRoles[member[p]]

Init ==
  /\ member = [c \in Conn |-> NoModule]
  /\ active = {}

Join(c, m) ==
  /\ c \notin Members
  /\ member' = [member EXCEPT ![c] = m]
  /\ UNCHANGED active

Activate(ready) ==
  /\ ready \subseteq Members
  /\ \A c \in ready : SatisfiedBy(c, Members)
  /\ active' = active \cup ready
  /\ UNCHANGED member

Leave(gone) ==
  /\ gone \subseteq Members
  /\ \A c \in active \ gone : SatisfiedBy(c, Members \ gone)
  /\ member' = [c \in Conn |-> IF c \in gone THEN NoModule ELSE member[c]]
  /\ active' = active \ gone

Next ==
  \/ \E c \in Conn, m \in Module : Join(c, m)
  \/ \E ready \in SUBSET Conn : Activate(ready)
  \/ \E gone \in SUBSET Conn : Leave(gone)

Spec == Init /\ [][Next]_vars

-----------------------------------------------------------------------------

(***************************************************************************)
(* Every active connection has a member, and every role that member        *)
(* depends on is offered by some member.                                   *)
(***************************************************************************)
ActiveAreSatisfied ==
  \A c \in active : member[c] # NoModule /\ SatisfiedBy(c, Members)
=============================================================================
