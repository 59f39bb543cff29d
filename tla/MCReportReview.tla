--------------------------- MODULE MCReportReview ---------------------------
(* Reports of an introduction, a Result and an Evidence section, in either *)
(* order and under every spelling, with up to two lines of each sort.      *)
EXTENDS ReportReview

MCLines == {Line("bullet", <<"long1">>), Line("bullet", <<"short">>),
          Line("text", <<"long1", "long2">>), Line("bullet", <<"long2", "ev1">>),
          Line("text", <<"long1", "ev9">>)}
Bodies == {<<>>} \cup {<<l>> : l \in MCLines} \cup {<<l, k>> : l \in MCLines, k \in MCLines}
Under(name, bodies) == {<<Line("heading", <<name>>)>> \o b : b \in bodies}

Intros == {<<>>, <<Line("text", <<"long2">>)>>}
Results == {<<>>} \cup UNION {Under(n, Bodies) : n \in {"Result"}}
           \cup UNION {Under(n, {<<>>, <<Line("bullet", <<"long1">>)>>}) :
                       n \in {"RESULT", "Results", "zhResult"}}
Evidence == {<<>>} \cup
    UNION {Under(n, {<<>>, <<Line("bullet", <<"ev1", "long1">>)>>}) :
             n \in {"Evidence", "EVIDENCE", "Evidences", "zhEvidence"}}

MCReports == {i \o r \o e : i \in Intros, r \in Results, e \in Evidence}
        \cup {i \o e \o r : i \in Intros, r \in Results, e \in Evidence}
MCEvidences == {<<>>, <<"ev1">>, <<"ev2", "ev1">>}
MCLacks == {{}, {"source_url", "query"}, {"modules", "expected"}}
MCShort == Titles \cup {"short", "Task completed."}
MCWords == MCShort \cup Stock \cup {"ev1", "ev2", "ev9", "long1", "long2"}
MCMaxRevisions == {0, 2}
=============================================================================
