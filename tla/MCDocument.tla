----------------------------- MODULE MCDocument -----------------------------
(***************************************************************************)
(* What happens to a compiled document, stage by stage in one run: a node  *)
(* is written and read, the manifest is put together, a document is        *)
(* loaded, decompiled and compiled again, and the command line is run.     *)
(* The initial state picks the stage ("part"); the others rest in an       *)
(* initial state of theirs and no step of the run touches them.            *)
(***************************************************************************)
EXTENDS MCLoadIr, MCNodeIr, MCManifest, MCDecompile, MCCli

VARIABLE part

OneOf(set) == CHOOSE elem \in set : TRUE

LoadRest == doc = OneOf(Documents) /\ LoadInit
NodeRest ==
  LET declared == OneOf(Declarations)
  IN  /\ node = [declared EXCEPT !.error_policy = from_node(@)]
      /\ resolved = 0
      /\ dependencies = [direct |-> <<>>, indirect |-> <<>>, variables |-> <<>>]
      /\ dict = <<>> /\ edits = {} /\ loaded = <<>> /\ node_stage = "declared"
ManifestRest == nodes = <<>> /\ ManifestInit
TripRest == source = OneOf(Workflows) /\ TripInit
CliRest == input = {} /\ command = "check" /\ CliInit

DocumentInit ==
  \/ part = "load" /\ NodeRest /\ ManifestRest /\ TripRest /\ CliRest /\ LoadInit
  \/ part = "node" /\ LoadRest /\ ManifestRest /\ TripRest /\ CliRest /\ NodeInit
  \/ part = "manifest" /\ LoadRest /\ NodeRest /\ TripRest /\ CliRest /\ ManifestInit
  \/ part = "trip" /\ LoadRest /\ NodeRest /\ ManifestRest /\ CliRest /\ TripInit
  \/ part = "cli" /\ LoadRest /\ NodeRest /\ ManifestRest /\ TripRest /\ CliInit

InLoad == part = "load" /\ UNCHANGED <<part, node_vars, manifest_vars, trip_vars, cli_vars>>
InNode == part = "node" /\ UNCHANGED <<part, load_vars, manifest_vars, trip_vars, cli_vars>>
InManifest == part = "manifest" /\ UNCHANGED <<part, load_vars, node_vars, trip_vars, cli_vars>>
InTrip == part = "trip" /\ UNCHANGED <<part, load_vars, node_vars, manifest_vars, cli_vars>>
InCli == part = "cli" /\ UNCHANGED <<part, load_vars, node_vars, manifest_vars, trip_vars>>

document_vars == <<part, load_vars, node_vars, manifest_vars, trip_vars, cli_vars>>

(* The last trip is over.                                                  *)
TripsFinished ==
  part = "trip" /\ trip_pc = "parse" /\ Len(ir) = Trips /\ UNCHANGED document_vars

DocumentNext ==
  \/ InLoad /\ CheckDocument
  \/ InLoad /\ Accept
  \/ InLoad /\ LoadFinished
  \/ InNode /\ ResolveOne
  \/ InNode /\ WriteNode
  \/ InNode /\ Edit
  \/ InNode /\ CheckNode
  \/ InNode /\ Load
  \/ InNode /\ NodeFinished
  \/ InManifest /\ Resource
  \/ InManifest /\ ResourcesDone
  \/ InManifest /\ Credential
  \/ InManifest /\ NextNode
  \/ InManifest /\ CredentialsDone
  \/ InManifest /\ Bind
  \/ InManifest /\ ManifestFinished
  \/ InTrip /\ ReadPort
  \/ InTrip /\ NextEntry
  \/ InTrip /\ FindTerminals
  \/ InTrip /\ CloseOne
  \/ InTrip /\ Compile
  \/ InTrip /\ RestoreOne
  \/ InTrip /\ Restored
  \/ TripsFinished
  \/ InCli /\ Invoke
  \/ InCli /\ Read
  \/ InCli /\ Collect
  \/ InCli /\ Bridge
  \/ InCli /\ Parse
  \/ InCli /\ Validate
  \/ InCli /\ Serialize
  \/ InCli /\ WriteFile
  \/ InCli /\ WriteFails
  \/ InCli /\ CliFinished

DocumentSpec == DocumentInit /\ [][DocumentNext]_document_vars

(* The type invariants of the stages.                                      *)
TypesOK == LoadTypeOK /\ NodeTypeOK /\ ManifestTypeOK /\ TripTypeOK /\ CliTypeOK
=============================================================================
