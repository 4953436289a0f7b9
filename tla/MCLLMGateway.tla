---------------------------- MODULE MCLLMGateway ----------------------------
(* An instance of LLMGateway for TLC; secrets, URLs and handlers are alike. *)
EXTENDS LLMGateway, TLC

Symmetry == Permutations(Secrets) \union Permutations(Urls) \union Permutations(Admins)
=============================================================================
