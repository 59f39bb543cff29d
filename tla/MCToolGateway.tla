---------------------------- MODULE MCToolGateway ----------------------------
(* One call for each way the policy and the validator treat a tool; three  *)
(* steps reach a page, its observation and a call on it, or a load and a   *)
(* lazy tool; a second run meets the approvals of the first.               *)
EXTENDS ToolGateway

A(tool, words, target) == [tool |-> tool, words |-> words, target |-> target]

MCCalls == {A("browser_open", "plain", "file"), A("browser_open", "plain", "public"),
            A("browser_observe", "plain", "page"), A("browser_click", "plain", "page"),
            A("browser_click", "ask", "page"), A("browser_type", "plain", "page"),
            A("browser_select", "plain", "page"), A("ask_human", "plain", "page"),
            A("finish_task", "plain", "page"),
            A("browser_upload_file", "ask", "page"), A("no_such_tool", "plain", "page"),
            A("tool_load", "plain", "docs_extract"),
            A("tool_load", "plain", "browser_click"), A("docs_extract", "plain", "page")}
=============================================================================
