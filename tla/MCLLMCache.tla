------------------------------ MODULE MCLLMCache ------------------------------
(* LLMCache with requests of one source each, or of none.                  *)
EXTENDS LLMCache

MCSingles == {{s} : s \in Sources}
MCRefSets == MCSingles \cup {{}}
=============================================================================
