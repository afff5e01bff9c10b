-------------------------- MODULE MCTranscriptionJobs --------------------------
(* Small instances of the transcription queue for TLC. *)
EXTENDS TranscriptionJobs, TLC

\* Workers differ in nothing but their names, and so do images and (where no
\* provider recognises whole pages) contexts.
WorkerSymmetry == Permutations(Workers)
ImageSymmetry == Permutations(Images) \cup Permutations(Contexts)

================================================================================
