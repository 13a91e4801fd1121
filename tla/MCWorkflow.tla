----------------------------- MODULE MCWorkflow -----------------------------
(* Instances of Workflow for TLC: generations with one scene, whose compose   *)
(* stage the factory may not have, and a request for no scenes.            *)
EXTENDS Workflow, TLC

CONSTANTS sb1, im1, co1, sb2, im2, co2, g0, g1, g2

Chain == [g \in Workflows |-> CASE g = g0 -> <<>>
                                [] g = g1 -> <<sb1, im1, co1>>
                                [] g = g2 -> <<sb2, im2, co2>>]

(* start_workflow creates one token for all tasks of a workflow. *)
PlanToken == [t \in Tasks |-> CHOOSE g \in Workflows : t \in TasksOf(g)]

PlanDeps == [t \in Tasks |-> {DepsOf(g, t) : g \in {h \in Workflows : t \in TasksOf(h)}}]
Zeros    == [t \in Tasks |-> 0]
Ones     == [t \in Tasks |-> 1]
Ranks    == [t \in Tasks |-> CASE t \in {sb1, sb2} -> 100 [] t \in {im1, im2} -> 50 [] OTHER -> 10]

(* The mock stages insist on nothing; the stages of infra/src/stages.cpp do. *)
NoInputs == [t \in Tasks |-> {}]
HttpInputs ==
  [t \in Tasks |-> CASE t \in {sb1, sb2} -> {"story_text"}
                     [] t \in {im1, im2} -> {"prompt"}
                     [] OTHER -> {"scenes_json"}]
HttpOutputs ==
  [t \in Tasks |-> CASE t \in {sb1, sb2} -> {"storyboard_json", "total_duration", "scene_count"}
                     [] t \in {im1, im2} -> {"image_path"}
                     [] OTHER -> {"video_path", "duration_seconds"}]

WorkerSymmetry == Permutations(Workers)
=============================================================================
