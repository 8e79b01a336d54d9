------------------------------- MODULE MCPipeline -------------------------------
(***************************************************************************)
(* The stages of a run that share no state with one another: fetching      *)
(* entries and clustering them, standing interests, the batches of an      *)
(* assessment, selection, and numbering, publishing and recording issues   *)
(* in date order.  A behaviour is one of the part that acts in it; the     *)
(* others stay as they start, so that their states add up and do not       *)
(* multiply.                                                               *)
(***************************************************************************)
EXTENDS MCPublishing, Batches, Dedupe, Interests, Selection, Ingest

VARIABLE acting

Parts == {"ingest", "dedupe", "interests", "batches", "selection", "publishing"}

partVars == <<vars, batchVars, dedupeVars, interestsVars, selectionVars, ingestVars>>
pipelineVars == <<acting, partVars>>

\* Only the part that acts starts anywhere but in one state.
PipelineInit ==
  /\ acting \in Parts
  /\ Init /\ DedupeInit /\ InterestsInit /\ SelectionInit /\ BatchesInit /\ IngestInit
  /\ acting # "batches" =>
       /\ meter = [p \in {"bulk", "editor"} |-> Preloaded(0)]
       /\ other = FALSE /\ poison = {} /\ pending = {}

PublishingActs ==
  /\ acting = "publishing" /\ Next
  /\ UNCHANGED <<batchVars, dedupeVars, interestsVars, selectionVars, ingestVars>>
BatchesAct ==
  /\ acting = "batches" /\ BatchesNext
  /\ UNCHANGED <<vars, dedupeVars, interestsVars, selectionVars, ingestVars>>
DedupeActs ==
  /\ acting = "dedupe" /\ DedupeNext
  /\ UNCHANGED <<vars, batchVars, interestsVars, selectionVars, ingestVars>>
InterestsAct ==
  /\ acting = "interests" /\ InterestsNext
  /\ UNCHANGED <<vars, batchVars, dedupeVars, selectionVars, ingestVars>>
SelectionActs ==
  /\ acting = "selection" /\ SelectionNext
  /\ UNCHANGED <<vars, batchVars, dedupeVars, interestsVars, ingestVars>>
IngestActs ==
  /\ acting = "ingest" /\ IngestNext
  /\ UNCHANGED <<vars, batchVars, dedupeVars, interestsVars, selectionVars>>

PipelineNext ==
  /\ PublishingActs \/ BatchesAct \/ DedupeActs \/ InterestsAct \/ SelectionActs \/ IngestActs
  /\ UNCHANGED acting

\* Every request of a stage is answered or times out.
PipelineSpec ==
  PipelineInit /\ [][PipelineNext]_pipelineVars /\ WF_batchVars(BatchesAct /\ UNCHANGED acting)

\* Types of the variables of every part but publishing.
PipelineTypeOK ==
  /\ acting = "dedupe" => DedupeTypeOK
  /\ acting = "interests" => InterestsTypeOK
  /\ acting = "batches" => BatchesTypeOK
  /\ acting = "selection" => SelectionTypeOK
  /\ acting = "ingest" => IngestTypeOK
===============================================================================
