---------------------------- MODULE TemplateLoops ----------------------------
(***************************************************************************)
(* The loops of internal/template/render.go over roles and names, around   *)
(* GenerateMachineConfigForName: generateTemplateMachineConfigs reads the  *)
(* roles from the template directory, GenerateMachineConfigsForRole the    *)
(* names from the directory of a role, and each name is a call of its own. *)
(* The controller makes one such call and uses no loop.                    *)
(*                                                                         *)
(* A directory lists its entries in the order of os.ReadDir.               *)
(***************************************************************************)
EXTENDS TemplateRender

CONSTANT TemplateDirs    \* the template directories the loops run on

DistinctNames(list) == \A i, j \in 1..Len(list) : list[i].name = list[j].name => i = j

\* The entries of a directory, in order; those of a role's hold its names.
ASSUME TemplateDirsAssumption ==
  \A d \in TemplateDirs :
    /\ WellFormed(d.common)
    /\ d.entries \in Seq(ToSet(d.entries)) /\ DistinctNames(d.entries)
    /\ \A r \in ToSet(d.entries) : r.isDir =>
         /\ r.list \in Seq(ToSet(r.list)) /\ DistinctNames(r.list)
         /\ \A n \in ToSet(r.list) : n.isDir => WellFormed(n.base)

VARIABLES
  dir,     \* the template directory: its common/_base and its entries
  roles,   \* entries the outer loop has not come to
  role,    \* the role it is at
  names,   \* entries of the role's directory still to come
  name,    \* the one under way
  cfgs,    \* the MachineConfigs so far
  loop     \* "call" inside GenerateMachineConfigForName, "one" if that is all

loops   == <<dir, roles, role, names, name, cfgs, loop>>
allVars == <<vars, loops>>

Nowhere == [is |-> "missing"]

OneCall ==
  /\ Init
  /\ dir = [common |-> Nowhere, entries |-> <<>>]
  /\ roles = <<>> /\ loop = "one"

AllRoles ==
  /\ dir \in TemplateDirs /\ config \in Configs
  /\ tree = [common |-> dir.common, role |-> Nowhere]
  /\ Fresh
  /\ roles = dir.entries /\ loop = "roles"

LoopInit == (OneCall \/ AllRoles) /\ role = "" /\ names = <<>> /\ name = "" /\ cfgs = <<>>

-----------------------------------------------------------------------------
\* Custom roles use the templates of the workers.
rolePath(r) == IF r \in {"worker", "master", "arbiter"} THEN r ELSE "worker"

\* The listings of the directories of that name, one or none.
Listings(r) == {entry.list : entry \in {e \in ToSet(dir.entries) : e.isDir /\ e.name = rolePath(r)}}

Fail == loop' = "failed" /\ cfgs' = <<>>

SkipFile ==
  /\ \/ /\ loop = "roles" /\ roles # <<>> /\ ~roles[1].isDir
        /\ roles' = Tail(roles) /\ UNCHANGED names
     \/ /\ loop = "names" /\ names # <<>> /\ ~names[1].isDir
        /\ names' = Tail(names) /\ UNCHANGED roles
  /\ UNCHANGED <<vars, dir, role, name, cfgs, loop>>

EnterRole ==
  /\ loop = "roles" /\ roles # <<>> /\ roles[1].isDir
  /\ names' \in Listings(roles[1].name)
  /\ role' = roles[1].name /\ roles' = Tail(roles)
  /\ loop' = "names"
  /\ UNCHANGED <<vars, dir, name, cfgs>>

\* The template directory or that of a role is not there or cannot be read.
DirIsUnreadable ==
  /\ loop = "roles"
  /\ roles = dir.entries \/ (roles # <<>> /\ roles[1].isDir)
  /\ Fail
  /\ UNCHANGED <<vars, dir, roles, role, names, name>>

CallForName ==
  /\ loop = "names" /\ names # <<>> /\ names[1].isDir
  /\ tree' = [common |-> dir.common, role |-> names[1].base]
  /\ todo' = <<>> /\ kind' = "files" /\ walk' = <<>>
  /\ found' = [k \in Kinds |-> <<>>]
  /\ pending' = <<>> /\ outConfig' = NoEntries /\ result' = Start
  /\ name' = names[1].name /\ names' = Tail(names)
  /\ loop' = "call"
  /\ UNCHANGED <<config, dir, roles, role, cfgs>>

NameReturns ==
  /\ loop = "call" /\ result.outcome = "ok"
  /\ cfgs' = Append(cfgs, [role |-> role, name |-> name, spec |-> result])
  /\ loop' = "names"
  /\ UNCHANGED <<vars, dir, roles, role, names, name>>

\* Mutant: a name that fails is left out.
SkipsBrokenName ==
  /\ loop = "call" /\ result = Failed
  /\ loop' = "names"
  /\ UNCHANGED <<vars, dir, roles, role, names, name, cfgs>>

NameFails ==
  /\ loop = "call" /\ result = Failed
  /\ Fail
  /\ UNCHANGED <<vars, dir, roles, role, names, name>>

RoleReturns ==
  /\ loop = "names" /\ names = <<>>
  /\ loop' = "roles"
  /\ UNCHANGED <<vars, dir, roles, role, names, name, cfgs>>

LoopReturns ==
  /\ loop = "roles" /\ roles = <<>>
  /\ loop' = "done"
  /\ UNCHANGED <<vars, dir, roles, role, names, name, cfgs>>

LoopNext ==
  \/ loop \in {"one", "call"} /\ Next /\ UNCHANGED loops
  \/ SkipFile \/ EnterRole \/ DirIsUnreadable \/ CallForName \/ NameReturns \/ NameFails
  \/ RoleReturns \/ LoopReturns

LoopSpec == LoopInit /\ [][LoopNext]_allVars

-----------------------------------------------------------------------------
RoleDirs == {e.name : e \in {f \in ToSet(dir.entries) : f.isDir}}

\* "custom pools are only allowed to be worker's children and can reuse the
\* worker templates" (render.go:72): the loops end with one MachineConfig for
\* every name of the directory a role uses, and two roles that use one directory
\* get the same files, units and extensions; or, when a directory or a name
\* fails, with none, not even those that were made before it.  The directory of
\* the common templates is no role, and whether it gets any is left open.
RolesShareTemplates ==
  /\ loop = "done" =>
       /\ \A i, j \in 1..Len(cfgs) :
            /\ cfgs[i].role = cfgs[j].role /\ cfgs[i].name = cfgs[j].name => i = j
            /\ rolePath(cfgs[i].role) = rolePath(cfgs[j].role) /\ cfgs[i].name = cfgs[j].name
                 => cfgs[i].spec = cfgs[j].spec
       /\ \A r \in RoleDirs \ {"common"} :
            {cfg.name : cfg \in {c \in ToSet(cfgs) : c.role = r}}
              = UNION {{e.name : e \in {f \in ToSet(list) : f.isDir}} : list \in Listings(r)}
  /\ loop = "failed" => cfgs = <<>>

=============================================================================
