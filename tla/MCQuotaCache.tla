---------------------------- MODULE MCQuotaCache ----------------------------
(* QuotaCache for TLC: the configured models. *)
EXTENDS QuotaCache

MCOneModel == <<"model-a">>
MCTwoModels == <<"model-a", "model-b">>
=============================================================================
