------------------------------ MODULE MCCorpus ------------------------------
(* Corpus with its constants given values here and in MCCorpus.cfg. *)
EXTENDS Corpus

CONSTANTS s1, s2, c1, c2

\* Two contents of one source, and one of them as the content of another source.
SharedFiles == {<<s1, c1>>, <<s1, c2>>, <<s2, c1>>}
=============================================================================
