------------------------- MODULE MCNMainController --------------------------
(***************************************************************************)
(* Instances of NMainController for TLC.                                   *)
(***************************************************************************)
EXTENDS NMainController

V(segments) == [segments |-> segments, suffix |-> Empty]
V1 == V(<<0, 1>>)
V2 == V(<<0, 1, 0>>)
Beta == [segments |-> <<0, 2>>, suffix |-> "beta"]
Latest == [segments |-> <<>>, suffix |-> "latest"]

Main == <<AppDomain, AppName, V1>>
Manager(version) == <<AppDomain, ServiceManager, version>>
Node == <<"other", "Node", V1>>
Wallet == <<"other", "Wallet", V1>>

Managed1 == Parameter("Core", "Managed", "1")
InScripts ==
  <<Managed1, Parameter("Network", "CommPort", "1"), Parameter("Script", "Scripted", "1"),
    Parameter("Script", "StartScript", "start"), Parameter("Script", "StopScript", "stop")>>

(* The directories of some versions, those above them, and an empty one. *)
Dirs(versions) ==
  versions \cup {SubSeq(p, 1, n) : p \in versions, n \in {1, 2}} \cup {<<"empty">>, <<"other", "None">>}

(* Everything that is named can be started, but one stop script. *)
Executables(versions) ==
  {Append(p, f) : p \in versions, f \in {AppName, ServiceManager, "Node", "Wallet", "start", "stop"}}
    \ {Append(Wallet, "stop")}

Disk(versions, ncf) ==
  [dirs |-> Dirs(versions), ncf |-> ncf, executables |-> Executables(versions)]

(* All modules, the ServiceManager in versions of several forms. *)
Installed(managers) ==
  LET versions == {Main, Node, Wallet} \cup {Manager(v) : v \in managers}
  IN  Disk(versions, [p \in versions |-> IF p \in {Node, Wallet} THEN InScripts ELSE <<Managed1>>])

Whole == {Installed({V1}), Installed({V2, V1}), Installed({Latest, V1}), Installed({Latest}),
          Installed({Beta, V1})}

(* One module, and one parameter that each of three files may have. *)
Said(values, parameter(_)) ==
  [path \in {p \in DOMAIN values : values[p] # "absent"} |-> <<parameter(values[path])>>]

ManagedIs(value) == Parameter("Core", "Managed", value)
StopScriptIs(value) == Parameter("Script", "StopScript", value)

Overridden ==
  {Disk({Node}, [p \in DOMAIN ncf \cup {Node} |->
                   (IF p = Node THEN <<Parameter("Script", "Scripted", "1")>> ELSE <<>>)
                     \o (IF p \in DOMAIN ncf THEN ncf[p] ELSE <<>>)]) :
     ncf \in {Said(values, ManagedIs) :
                values \in [{<<>>, <<"other">>, Node} -> {"absent", "0", "1", Empty}]}}
  \cup
  {Disk({Node}, [p \in DOMAIN ncf \cup {Node} |->
                   (IF p = Node THEN <<Managed1, Parameter("Script", "Scripted", "1")>> ELSE <<>>)
                     \o (IF p \in DOMAIN ncf THEN ncf[p] ELSE <<>>)]) :
     ncf \in {Said(values, StopScriptIs) :
                values \in [{<<>>, <<"other">>, Node} -> {"absent", "stop", "halt", Empty}]}}

Installations == Whole \cup Overridden
=============================================================================
