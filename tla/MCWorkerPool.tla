---------------------------- MODULE MCWorkerPool ----------------------------
(* WorkerPool for TLC. *)
EXTENDS WorkerPool

\* A loader's job reports to the main thread; the report asks for another, which
\* adds a job for the loaders, and that one ends without a word.
MCLoaderJobs == {1, 3, 4}
MCMainJobs   == {2}
MCPosts      == <<2, 3, 4, 0>>

\* A single job of the loaders that reports nothing, as S_LoadSoundWorker does for
\* a sexed sound (snd_mem.c 1059).
SilentJobs   == {1}
SilentPosts  == <<0>>
=============================================================================
