----------------------------- MODULE ViamCommands -----------------------------
(***************************************************************************)
(* The command table that main() in src/cli/viam/main.go builds for its    *)
(* urfave/cli App, urfave/cli's resolution of a command line in it, and    *)
(* the fmt.Sprintf that rdkcli.Errorf applies to its format.               *)
(*                                                                         *)
(* The table keeps what dispatch depends on: each command's path of names, *)
(* its aliases, its flags (each the set of its name and aliases), which    *)
(* flags are Required, and whether it has an Action.  Usage strings are    *)
(* left out.  Text is a sequence of one-character strings, so that         *)
(* Sprintf's formatting is modelled by what it does.  Walk and Sprintf are *)
(* recursive: this module is for TLC; ViamApp takes them as parameters.    *)
(***************************************************************************)
EXTENDS Naturals, Sequences, FiniteSets

Cmd(path, aliases, flags, required, action) ==
    [path |-> path, aliases |-> aliases, flags |-> flags,
     required |-> required, action |-> action]

(* The App's own flags.                                                    *)
AppFlags == << {"base-url"}, {"config", "c"}, {"debug", "vvv"} >>

OrgLoc == << {"organization"}, {"location"} >>

AccountCommands ==
    << Cmd(<<"login">>, {"auth"}, <<>>, {}, "LoginAction"),
       Cmd(<<"login", "print-access-token">>, {}, <<>>, {}, "PrintAccessTokenAction"),
       Cmd(<<"logout">>, {}, <<>>, {}, "LogoutAction"),
       Cmd(<<"whoami">>, {}, <<>>, {}, "WhoAmIAction"),
       Cmd(<<"organizations">>, {}, <<>>, {}, "none"),
       Cmd(<<"organizations", "list">>, {}, <<>>, {}, "ListOrganizationsAction"),
       Cmd(<<"locations">>, {}, <<>>, {}, "none"),
       Cmd(<<"locations", "list">>, {}, <<>>, {}, "ListLocationsAction") >>

DataFilters ==
    << {"DataFlagOrgIDs"}, {"DataFlagLocationIDs"}, {"DataFlagRobotID"}, {"DataFlagPartID"},
       {"DataFlagRobotName"}, {"DataFlagPartName"}, {"DataFlagComponentType"},
       {"DataFlagComponentName"}, {"DataFlagMethod"}, {"DataFlagMimeTypes"} >>

DataCommands ==
    << Cmd(<<"data">>, {}, <<>>, {}, "none"),
       Cmd(<<"data", "export">>, {},
           << {"DataFlagDestination"}, {"DataFlagDataType"} >> \o DataFilters
             \o << {"DataFlagParallelDownloads"}, {"DataFlagStart"}, {"DataFlagEnd"},
                  {"DataFlagTags"}, {"DataFlagBboxLabels"} >>,
           {"DataFlagDestination", "DataFlagDataType"}, "DataExportAction"),
       Cmd(<<"data", "delete">>, {},
           << {"DataFlagDataType"} >> \o DataFilters \o << {"DataFlagStart"}, {"DataFlagEnd"} >>,
           {"DataFlagDataType"}, "DataDeleteAction") >>

RobotsCommands ==
    << Cmd(<<"robots">>, {}, <<>>, {}, "none"),
       Cmd(<<"robots", "list">>, {}, OrgLoc, {}, "ListRobotsAction") >>

(* Mutant: "robot part logs" gains a "follow" flag whose alias "f" is     *)
(* already the alias of "tail".                                            *)
RobotCommands_DupAlias ==
    << Cmd(<<"robot">>, {}, <<>>, {}, "none"),
       Cmd(<<"robot", "status">>, {}, OrgLoc \o <<{"robot"}>>, {"robot"}, "RobotStatusAction"),
       Cmd(<<"robot", "logs">>, {}, OrgLoc \o <<{"robot"}, {"errors"}>>, {"robot"}, "RobotLogsAction"),
       Cmd(<<"robot", "part">>, {}, <<>>, {}, "none"),
       Cmd(<<"robot", "part", "status">>, {}, OrgLoc \o <<{"robot"}, {"part"}>>,
           {"robot", "part"}, "RobotPartStatusAction"),
       Cmd(<<"robot", "part", "logs">>, {},
           OrgLoc \o <<{"robot"}, {"part"}, {"errors"}, {"tail", "f"},
                     {"follow", "f"}>>,
           {"robot", "part"}, "RobotPartLogsAction"),
       Cmd(<<"robot", "part", "run">>, {},
           OrgLoc \o <<{"robot"}, {"part"}, {"data", "d"}, {"stream", "s"}>>,
           {"organization", "location", "robot", "part"}, "RobotPartRunAction"),
       Cmd(<<"robot", "part", "shell">>, {}, OrgLoc \o <<{"robot"}, {"part"}>>,
           {"organization", "location", "robot", "part"}, "RobotPartShellAction") >>

RobotCommands ==
    << Cmd(<<"robot">>, {}, <<>>, {}, "none"),
       Cmd(<<"robot", "status">>, {}, OrgLoc \o <<{"robot"}>>, {"robot"}, "RobotStatusAction"),
       Cmd(<<"robot", "logs">>, {}, OrgLoc \o <<{"robot"}, {"errors"}>>, {"robot"}, "RobotLogsAction"),
       Cmd(<<"robot", "part">>, {}, <<>>, {}, "none"),
       Cmd(<<"robot", "part", "status">>, {}, OrgLoc \o <<{"robot"}, {"part"}>>,
           {"robot", "part"}, "RobotPartStatusAction"),
       Cmd(<<"robot", "part", "logs">>, {},
           OrgLoc \o <<{"robot"}, {"part"}, {"errors"}, {"tail", "f"}>>,
           {"robot", "part"}, "RobotPartLogsAction"),
       Cmd(<<"robot", "part", "run">>, {},
           OrgLoc \o <<{"robot"}, {"part"}, {"data", "d"}, {"stream", "s"}>>,
           {"organization", "location", "robot", "part"}, "RobotPartRunAction"),
       Cmd(<<"robot", "part", "shell">>, {}, OrgLoc \o <<{"robot"}, {"part"}>>,
           {"organization", "location", "robot", "part"}, "RobotPartShellAction") >>

ModuleOwner == << {"public-namespace"}, {"org-id"} >>

ModuleCommands ==
    << Cmd(<<"module">>, {}, <<>>, {}, "none"),
       Cmd(<<"module", "create">>, {}, <<{"name"}>> \o ModuleOwner, {"name"}, "CreateModuleAction"),
       Cmd(<<"module", "update">>, {}, <<{"module"}>> \o ModuleOwner, {}, "UpdateModuleAction"),
       Cmd(<<"module", "upload">>, {},
           <<{"module"}>> \o ModuleOwner \o <<{"name"}, {"version"}, {"platform"}>>,
           {"version", "platform"}, "UploadModuleAction") >>

VersionCommand == << Cmd(<<"version">>, {}, <<>>, {}, "VersionAction") >>

(* The command table, in the order of the Commands slices.                *)
Table ==
    AccountCommands \o DataCommands \o RobotsCommands \o RobotCommands
        \o ModuleCommands \o VersionCommand

Root == Cmd(<<>>, {}, AppFlags, {}, "none")

-----------------------------------------------------------------------------
(* A command's own name (the last of its path) and its parent's path.     *)
Word(c) == c.path[Len(c.path)]
Parent(c) == SubSeq(c.path, 1, Len(c.path) - 1)

(* urfave/cli: the first command among cur's subcommands that has the     *)
(* name or alias word (Command.HasName), or 0.                             *)
Kids(cur, word) ==
    {i \in 1..Len(Table) : /\ Parent(Table[i]) = cur.path
                          /\ word \in {Word(Table[i])} \cup Table[i].aliases}

Child(cur, word) ==
    IF Kids(cur, word) = {} THEN 0
    ELSE CHOOSE i \in Kids(cur, word) : \A j \in Kids(cur, word) : i <= j

(* Descend the command tree along the words of the command line; the      *)
(* words left over are the command's arguments.                            *)
RECURSIVE Walk(_, _)
Walk(cur, rest) ==
    IF rest = <<>> \/ Child(cur, Head(rest)) = 0
      THEN [cmd |-> cur, args |-> rest]
      ELSE Walk(Table[Child(cur, Head(rest))], Tail(rest))

(* fmt.Sprintf(format) with no operands: "%%" prints "%", "%" and a verb  *)
(* prints "%!" verb "(MISSING)", a trailing "%" prints "%!(NOVERB)".       *)
RECURSIVE Sprintf(_)
Sprintf(f) ==
    IF f = <<>> THEN <<>>
    ELSE IF Head(f) # "%" THEN <<Head(f)>> \o Sprintf(Tail(f))
    ELSE IF Len(f) = 1 THEN <<"%", "!", "(NOVERB)">>
    ELSE IF f[2] = "%" THEN <<"%">> \o Sprintf(Tail(Tail(f)))
    ELSE <<"%", "!", f[2], "(MISSING)">> \o Sprintf(SubSeq(f, 3, Len(f)))

=============================================================================
