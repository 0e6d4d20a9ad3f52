--------------------------- MODULE MCReportWindows ---------------------------
(* Environments for TLC. *)
EXTENDS ReportWindows

Environment(chatId, weeks, eventsWeeks, pages) ==
    [chat |-> chatId, weeks |-> weeks, eventsWeeks |-> eventsWeeks, pages |-> pages]

Environments ==
    {Environment("valid", <<>>, <<>>, <<>>),
     Environment("valid", <<1>>, <<3>>, <<2>>),
     Environment("valid", <<4>>, <<1>>, <<>>),
     Environment("valid", <<2>>, <<>>, <<3>>),
     Environment("malformed", <<>>, <<>>, <<>>),
     Environment("absent", <<0>>, <<>>, <<>>)}
=============================================================================
