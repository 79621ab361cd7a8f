------------------------------- MODULE ViamCLI -------------------------------
(***************************************************************************)
(* The viam command-line tool, src/cli/viam/main.go: the App's run and     *)
(* error path (ViamApp) over the command table and urfave/cli's            *)
(* resolution of it (ViamCommands).  Resolve and Format of ViamApp are     *)
(* ResolveArgs and Sprintf below (given to TLC in the MC module's cfg).    *)
(***************************************************************************)
EXTENDS ViamCommands, ViamApp

(* App.Run descends the command tree from the App itself.                 *)
ResolveArgs(words) == Walk(Root, words)

(* The command line resolves unambiguously: none of its words names two  *)
(* subcommands of one command (urfave/cli would silently take the first), *)
(* and the command it reaches defines no flag name or alias twice          *)
(* (urfave/cli panics on a redefined flag when the command runs).          *)
ResolutionUnambiguous ==
    /\ \A c \in {Root} \cup {Table[i] : i \in 1..Len(Table)} :
          \A k \in 1..Len(argv) : Cardinality(Kids(c, argv[k])) <= 1
    /\ LET f == Walk(Root, argv).cmd.flags IN
          \A i, j \in 1..Len(f) : i # j => f[i] \cap f[j] = {}

=============================================================================
