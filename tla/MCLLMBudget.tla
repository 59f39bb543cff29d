----------------------------- MODULE MCLLMBudget -----------------------------
(* A task whose limits are a few tokens apart: one client reaches each of  *)
(* them within two generates, and a third run still has calls left.        *)
EXTENDS LLMBudget

MCPromptSizes == {1, 2, 3}
MCCompletionSizes == {0, 1}
=============================================================================
