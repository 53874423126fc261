--------------------------- MODULE DiscoverCommand ---------------------------
(***************************************************************************)
(* python -m cua.agent.cli discover: a discovery (module Discovery), then  *)
(* what it leaves in the directory given as --out, which an earlier        *)
(* command may have used: the evidence of the run and, when the goal was   *)
(* reached, the artifact it is recorded as.                                *)
(***************************************************************************)
EXTENDS Discovery, Inputs

VARIABLES folder,    \* the files: [run, transcript, observation, screenshot, artifact],
                     \* each {what this command wrote}, or {} while it is what an
                     \* earlier one left, if any
          exit       \* the exit code; or "raised", or "disk" for an OSError of a
                     \* write; "none" while the command runs

commandVars == <<vars, folder, exit>>

\* The files of save_discovery_evidence, in the order it writes them.
Evidence == <<"run", "transcript", "observation", "screenshot">>

Untouched == [file \in {"run", "transcript", "observation", "screenshot", "artifact"} |-> {}]

CommandInit == Init /\ folder = Untouched /\ exit = "none"

Discovers == exit = "none" /\ Loop /\ UNCHANGED <<folder, exit>>

PageMoves == exit = "none" /\ PageChanges /\ UNCHANGED <<folder, exit>>

Returned == pc = "over" /\ status # "raised" /\ exit = "none"

DiscoverRaises ==
  /\ pc = "over"
  /\ status = "raised"
  /\ exit = "none"
  /\ exit' = "raised"
  /\ UNCHANGED <<vars, folder>>

\* Those still to be written: the final observation only if there is one.
ToWrite == {k \in DOMAIN Evidence :
              folder[Evidence[k]] = {} /\ (Evidence[k] = "observation" => observation # None)}

\* Mutant: the screenshot is taken when the other files have been written.
ScreenshotRaisesLate ==
  /\ Returned
  /\ {Evidence[k] : k \in ToWrite} = {"screenshot"}
  /\ exit' = "raised"
  /\ UNCHANGED <<vars, folder>>

\* screenshot() is an argument of save_discovery_evidence's, so that a page that
\* is gone by then leaves nothing of the run.
ScreenshotRaises ==
  /\ Returned
  /\ folder.run = {}
  /\ exit' = "raised"
  /\ UNCHANGED <<vars, folder>>

\* The next file is written.  A run that did not reach its goal leaves it at the
\* evidence, whatever artifact is in the directory.
WriteEvidence ==
  /\ Returned
  /\ \E k \in ToWrite :
       LET file == Evidence[k]
       IN  /\ \A other \in ToWrite : k <= other
           /\ folder' = [folder EXCEPT ![file] =
                           CASE file = "run"         -> {status}
                             [] file = "transcript"  -> {transcript}
                             [] file = "observation" -> {observation}
                             [] file = "screenshot"  -> {"of this page"}]
           /\ exit' = IF ToWrite = {k} /\ status # "goal_reached" THEN "1" ELSE "none"
  /\ UNCHANGED vars

\* Mutant: the recording is written before it is validated.
RecordAnyway(human) ==
  /\ Returned
  /\ ToWrite = {}
  /\ LET artifact == ArtifactOf(transcript, observation, human)
     IN  /\ folder' = [folder EXCEPT !.artifact = {artifact}]
         /\ exit' = IF Valid(artifact) THEN "0" ELSE "raised"
  /\ UNCHANGED vars

\* build_artifact_from_discovery, which raises when the validators refuse what
\* it has built, and the writing of the artifact.
Record(human) ==
  /\ Returned
  /\ ToWrite = {}
  /\ LET artifact == ArtifactOf(transcript, observation, human)
     IN  IF Valid(artifact)
         THEN folder' = [folder EXCEPT !.artifact = {artifact}] /\ exit' = "0"
         ELSE exit' = "raised" /\ UNCHANGED folder
  /\ UNCHANGED vars

\* The directory, or the next file, cannot be written.
WriteFails ==
  /\ Returned
  /\ ToWrite = {} =>
       \E human \in Humans : Valid(ArtifactOf(transcript, observation, human))
  /\ exit' = "disk"
  /\ UNCHANGED <<vars, folder>>

Conclusion == \/ DiscoverRaises \/ ScreenshotRaises \/ WriteEvidence \/ WriteFails
              \/ \E human \in Humans : Record(human)

CommandNext == Discovers \/ PageMoves \/ Conclusion

\* The loop is fair as in Discovery; what follows it is a straight line.
CommandSpec == CommandInit /\ [][CommandNext]_commandVars /\ WF_commandVars(Discovers)

-----------------------------------------------------------------------------
\* "There'd be no artifact.json for step 2 to replay" unless the goal was
\* reached, and "an artifact that fails to validate should never be saved": what
\* a run writes it had every act work for, and validated whole; and a caller is
\* told of success only with the artifact there.
OnlyGoodRunsAreRecorded ==
  /\ folder.artifact # {} =>
       /\ status = "goal_reached"
       /\ \A k \in DOMAIN transcript : transcript[k].ok
       /\ \A artifact \in folder.artifact : Valid(artifact)
  /\ exit = "0" => folder.artifact # {}

\* The evidence in a directory is of one run, as far as the disk lets it: a
\* command that raised before its evidence was whole leaves the files of the one
\* before it as they were, and one that did not leaves none of them in place, but
\* for the final observation of a run that never looked (max_steps is not
\* positive), which stays that of a run before.  No artifact is written next to
\* evidence that is not its own.
EvidenceIsOfOneRun ==
  LET Ours(file) == folder[file] # {}
      Never(file) == file = "observation" /\ observation = None
      files == {"run", "transcript", "observation", "screenshot"}
  IN  /\ exit \notin {"none", "disk"} =>
           \A file \in files : Never(file) \/ (Ours(file) <=> Ours("run"))
      /\ Ours("artifact") => \A file \in files : Ours(file)
      /\ (Ours("run") /\ observation = None) =>
           status = "max_steps_exceeded" /\ transcript = <<>>

\* "Replays the recorded steps with no model involved": given for each parameter
\* the value that was recorded as it, a replay of the recording is not refused,
\* sends the surface what the model sent, and is on an allowed domain wherever
\* the model acted.
ReplayRetracesTheRun ==
  status = "goal_reached" =>
    \A human \in Humans :
      LET artifact == ArtifactOf(transcript, observation, human)
          given == [name \in ParamNames(artifact) |->
                      [kind |-> "str",
                       text |-> CHOOSE v \in DOMAIN human.parameterize :
                                  human.parameterize[v] = name]]
      IN  (Valid(artifact) /\ IsInjective(human.parameterize)) =>
            /\ InputsAccepted(artifact, given)
            /\ \A k \in DOMAIN transcript :
                 /\ transcript[k].observation.domain \in artifact.domains
                 /\ transcript[k].decision.action \in DrawsValue =>
                      ResolveValue(artifact.steps[k], ResolvedInputs(artifact, given))
                        = transcript[k].decision.value
=============================================================================
