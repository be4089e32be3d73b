--------------------------- MODULE NModuleManager ---------------------------
(***************************************************************************)
(* NModuleManager and NModuleInfo: what NulstarMain knows about the        *)
(* installed modules.  It is read from the directory tree                  *)
(* Modules/<namespace>/<module>/<version> and from the .ncf files of its   *)
(* first, second and fourth level.                                         *)
(*                                                                         *)
(* A disk is a record: dirs, a set of paths; ncf, the parameters in the    *)
(* file of each directory that has one; executables, the files that can be *)
(* started.  A path is a sequence of names.  The name of a version         *)
(* directory is a record of the segments of the version number it starts   *)
(* with (none if it is not a version) and what follows them.  Names are    *)
(* listed in a fixed order, not by alphabet.                               *)
(***************************************************************************)
EXTENDS Naturals, FiniteSets, SequencesExt

CONSTANTS
  Empty,      \* the empty string
  NoVersion   \* no version is found, and "the last version" as an argument

-----------------------------------------------------------------------------
(* QVersionNumber *)

fromString(dir) == dir.segments
toString(v) == [segments |-> v, suffix |-> Empty]

Newer(v, w) ==
  \E n \in DOMAIN v :
    /\ n <= Len(w) + 1
    /\ \A i \in 1 .. n - 1 : v[i] = w[i]
    /\ n <= Len(w) => v[n] > w[n]

-----------------------------------------------------------------------------
(* Parameters *)

Parameter(group, name, value) == [group |-> group, name |-> name, value |-> value]

Named(p, group, name) == p.group = group /\ p.name = name

(* The first one counts. *)
fGetModuleParamsValue(group, name, params) ==
  LET at == {i \in DOMAIN params : Named(params[i], group, name)}
  IN  IF at = {} THEN Empty ELSE params[Min(at)].value

(* Mutated form: a parameter already there stays. *)
Appended(params, p) == Append(params, p)

(* A parameter replaces the one that counted, unless that is empty. *)
Override(params, p) ==
  LET value == fGetModuleParamsValue(p.group, p.name, params)
      old   == {i \in DOMAIN params : params[i] = Parameter(p.group, p.name, value)}
  IN  Append(IF value = Empty THEN params ELSE RemoveAt(params, Min(old)), p)

(* One after the other, the parameters of a file. *)
Overrides(params, file) ==
  LET read[n \in 0 .. Len(file)] ==
        IF n = 0 THEN params ELSE Override(read[n - 1], file[n])
  IN  read[Len(file)]

ReadNcf(disk, path, params) ==
  IF path \in DOMAIN disk.ncf THEN Overrides(params, disk.ncf[path]) ELSE params

-----------------------------------------------------------------------------
(* NModuleInfo *)

NoInfo ==
  [ns |-> Empty, name |-> Empty, version |-> NoVersion, dir |-> <<>>, params |-> <<>>]

fScriptParameterValue(info, name) == fGetModuleParamsValue("Script", name, info.params)

Scripted(info) == fScriptParameterValue(info, "Scripted") = "1"

(* What is started: the start script, or the program of the module's name. *)
fModuleAppPath(info) ==
  Append(info.dir, IF Scripted(info) THEN fScriptParameterValue(info, "StartScript") ELSE info.name)

fModuleStopScript(info) ==
  IF Scripted(info) THEN Append(info.dir, fScriptParameterValue(info, "StopScript")) ELSE Empty

-----------------------------------------------------------------------------
(* NModuleManager *)

fFoldersNameList(disk, path) ==
  SetToSeq({Last(p) : p \in {q \in disk.dirs : Front(q) = path}})

(* fSetModuleInfo, without the directories of the libraries. The info has  *)
(* its parameters in lists by their groups; here they stay together, and   *)
(* who looks in a list names the group.                                    *)
ModuleInfo(ns, name, version, params) ==
  [ns |-> ns, name |-> name, version |-> version, dir |-> <<ns, name, version>>,
   params |-> params]

(* The parameters of a module: the more specific files come later. *)
ModuleParams(disk, path) ==
  ReadNcf(disk, path, ReadNcf(disk, <<path[1]>>, ReadNcf(disk, <<>>, <<>>)))

(* A module without a file of its own does not count, nor one that is not  *)
(* managed.                                                                *)
fReadModuleNcf(disk, ns, name, version) ==
  LET path == <<ns, name, version>> IN
  IF path \notin DOMAIN disk.ncf THEN <<>>
  ELSE LET params == ModuleParams(disk, path)
       IN  IF fGetModuleParamsValue("Core", "Managed", params) = "1"
           THEN <<ModuleInfo(ns, name, version, params)>>
           ELSE <<>>

fScanManagedModules(disk) ==
  LET modules(ns)    == fFoldersNameList(disk, <<ns>>)
      versions(path) == fFoldersNameList(disk, path)
      names          == {p \in disk.dirs : Len(p) = 2 /\ versions(p) # <<>>}
      namespaces     == {ns \in ToSet(fFoldersNameList(disk, <<>>)) : modules(ns) # <<>>}
  IN  [mNamespaceModules |-> [ns \in namespaces |-> modules(ns)],
       mModuleVersions   |-> [path \in names |-> versions(path)]]

fGetModuleVersions(manager, ns, name) ==
  IF <<ns, name>> \in DOMAIN manager.mModuleVersions
  THEN manager.mModuleVersions[<<ns, name>>] ELSE <<>>

fLoadModulesInfo(disk) ==
  LET scan       == fScanManagedModules(disk)
      namespaces == SetToSeq(DOMAIN scan.mNamespaceModules)
      ofModule(ns, name) ==
        LET versions == fGetModuleVersions(scan, ns, name)
        IN  FlattenSeq([i \in DOMAIN versions |-> fReadModuleNcf(disk, ns, name, versions[i])])
      ofNamespace(ns) ==
        LET names == scan.mNamespaceModules[ns]
        IN  FlattenSeq([i \in DOMAIN names |-> ofModule(ns, names[i])])
  IN  [mModuleVersions |-> scan.mModuleVersions,
       mModuleInfoList |-> FlattenSeq([i \in DOMAIN namespaces |-> ofNamespace(namespaces[i])])]

(* The newest version, managed or not; its text need not be the name of    *)
(* its directory.                                                          *)
fGetModuleLastVersion(manager, ns, name) ==
  LET found == {fromString(v) : v \in ToSet(fGetModuleVersions(manager, ns, name))} \ {<<>>}
  IN  IF found = {} THEN NoVersion
      ELSE toString(CHOOSE v \in found : \A w \in found : ~Newer(w, v))

EffectiveVersion(manager, ns, name, version) ==
  IF version = NoVersion THEN fGetModuleLastVersion(manager, ns, name) ELSE version

fModuleInfo(manager, ns, name, version) ==
  LET v  == EffectiveVersion(manager, ns, name, version)
      at == {m \in ToSet(manager.mModuleInfoList) : m.ns = ns /\ m.name = name /\ m.version = v}
  IN  IF at = {} THEN NoInfo ELSE CHOOSE m \in at : TRUE

-----------------------------------------------------------------------------
(* What a manager should know of a disk *)

(* The parameters of a file, each of them once. *)
IsFile(file) ==
  /\ Len(file) \in Nat /\ file = [i \in 1 .. Len(file) |-> file[i]]
  /\ \A i \in DOMAIN file : file[i] = Parameter(file[i].group, file[i].name, file[i].value)
  /\ \A i, j \in DOMAIN file : Named(file[i], file[j].group, file[j].name) => i = j

(* A directory tree that can be: finite, every directory in its parent. *)
IsDisk(disk) ==
  /\ IsFiniteSet(disk.dirs)
  /\ \A p \in disk.dirs :
       /\ Len(p) \in 1 .. 3 /\ p = [i \in 1 .. Len(p) |-> p[i]]
       /\ Len(p) > 1 => Front(p) \in disk.dirs
  /\ \A path \in DOMAIN disk.ncf : IsFile(disk.ncf[path])

(* The files that may speak about a module, the most specific first. *)
FilesOf(path) == <<path, <<path[1]>>, <<>>>>

Speaks(file, group, name) == \E p \in ToSet(file) : Named(p, group, name)

ValueIn(file, group, name) == (CHOOSE p \in ToSet(file) : Named(p, group, name)).value

(* Those that have a parameter, by their number. *)
Speaking(disk, path, group, name) ==
  {k \in 1 .. 3 : /\ FilesOf(path)[k] \in DOMAIN disk.ncf
                  /\ Speaks(disk.ncf[FilesOf(path)[k]], group, name)}

(* The value in the most specific of them. *)
SaidOf(disk, path, group, name) ==
  LET at == Speaking(disk, path, group, name)
  IN  IF at = {} THEN Empty ELSE ValueIn(disk.ncf[FilesOf(path)[Min(at)]], group, name)

(* The parameter is empty in a file but the most specific that has it. *)
HiddenByEmpty(disk, path, group, name) ==
  LET at == Speaking(disk, path, group, name)
  IN  \E j, k \in at : j < k /\ ValueIn(disk.ncf[FilesOf(path)[k]], group, name) = Empty

Managed(disk, path) == SaidOf(disk, path, "Core", "Managed") = "1"

ModulePaths(disk) == {p \in disk.dirs : Len(p) = 3 /\ p \in DOMAIN disk.ncf}

(* The managed modules are those whose most specific word on it says so,   *)
(* each once.                                                              *)
KnowsManaged(manager, disk) ==
  LET infos == manager.mModuleInfoList
      plain == {p \in ModulePaths(disk) : ~HiddenByEmpty(disk, p, "Core", "Managed")}
  IN  /\ {infos[i].dir : i \in DOMAIN infos} \cap plain = {p \in plain : Managed(disk, p)}
      /\ \A i, j \in DOMAIN infos : infos[i].dir = infos[j].dir => i = j

(* A script parameter has the value that the most specific file gives it.  *)
KnowsScripts(manager, disk) ==
  \A i \in DOMAIN manager.mModuleInfoList :
    LET info == manager.mModuleInfoList[i] IN
    \A name \in {"Scripted", "StartScript", "StopScript"} :
      ~HiddenByEmpty(disk, info.dir, "Script", name) =>
        fScriptParameterValue(info, name) = SaidOf(disk, info.dir, "Script", name)
=============================================================================
