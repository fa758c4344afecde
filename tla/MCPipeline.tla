---------------------------- MODULE MCPipeline ----------------------------
(***************************************************************************)
(* Instances of SpeculativeRun for TLC: the stage lists and requests to    *)
(* explore.                                                                *)
(***************************************************************************)
EXTENDS SpeculativeRun

DEFAULT_STAGES == <<"ingest", "normalize", "vad", "separate", "backend", "acceleration",
                    "align", "punctuate", "diarize", "persist">>

\* The default list without acceleration, which takes and puts back the result as
\* align does, with one stage taken out, moved elsewhere or entered twice.
OneEdit ==
    LET d == RemoveAt(DEFAULT_STAGES, 6)
        n == Len(d)
    IN  {RemoveAt(d, i) : i \in 1 .. n}
          \union {InsertAt(RemoveAt(d, i), j, d[i]) : i \in 1 .. n, j \in 1 .. n}
          \union {InsertAt(d, j, d[i]) : i \in 1 .. n, j \in 1 .. n + 1}

\* Every list of at most three stages.
Short == UNION {[1 .. n -> Stages] : n \in 0 .. 3}

\* Every order of what follows ingest, normalize for a speech pipeline.
Reordered ==
    LET Rest == {"vad", "separate", "backend", "diarize"}
    IN  {<<"ingest", "normalize">> \o r : r \in [1 .. 4 -> Rest]}

\* The list on which speculation runs over audio.
SpeechConfigs == {<<"ingest", "normalize", "backend">>}

AllConfigs == {DEFAULT_STAGES} \union OneEdit \union Short \union Reordered

Full == [vad |-> TRUE, diarize |-> TRUE, stem |-> TRUE, punctuate |-> TRUE,
         detect_language_only |-> FALSE, speculative |-> FALSE, persist |-> TRUE]

\* Everything on, and everything on but a few choices.
EditedRequests ==
    {Full, [Full EXCEPT !.vad = FALSE, !.persist = FALSE],
     [Full EXCEPT !.diarize = FALSE, !.stem = FALSE, !.punctuate = FALSE,
                  !.speculative = TRUE],
     [Full EXCEPT !.detect_language_only = TRUE]}
=============================================================================
