-------------------------- MODULE MCActionPlanning --------------------------
(* Answers of every spelling, place and set of up to two texts, and the    *)
(* shapes and contents that are refused.                                   *)
EXTENDS ActionPlanning

Types == {"click", "browser_type", "browser_extract", "wait", "done",
          "tool_search", "load_tool", "ask_human", "dance", "browser_open",
          "browser_observe"}
TextSets == {{}, {"target_hint"}, {"target"}, {"condition"}, {"instruction"},
             {"summary"}, {"query"}, {"id"}, {"question"},
             {"target_hint", "text"}, {"summary", "instruction"}}
Object(where, type, act, top, extra) ==
    [shape |-> "object", where |-> where, type |-> type, act |-> act,
     top |-> top, extra |-> extra]

MCAnswers ==
    {Object("action", t, {"type"} \cup a, {}, "none") : t \in Types, a \in TextSets}
    \cup {Object("action", t, {"type"} \cup a, {}, "none") :
             t \in {"browser_click", "browser_wait", "finish_task", "tool_load"},
             a \in TextSets \cup {{"tool_id"}}}
    \cup {Object("name", t, {}, a, "none") : t \in Types, a \in TextSets}
    \cup {Object("flat", t, {}, k \cup a, "none") :
             t \in Types, k \in {{"type"}, {"tool"}}, a \in TextSets}
    \cup {Object("flat", "click", {}, a, "none") : a \in {{"id"}, {"query"}}}
    \cup {Object("action", "click", {"type", "target_hint"}, {}, x) :
             x \in {"dropped", "key", "text", "effect"}}
    \cup {[Object("action", "click", {"type", "target_hint"}, {}, "none")
               EXCEPT !.shape = s] : s \in {"fenced", "wrapped", "list", "broken"}}
=============================================================================
