------------------------------ MODULE LogEntry ------------------------------
(***************************************************************************)
(* A line of a log: src/LogEntry.cc.  The text before ": " decides about   *)
(* its class, its type and the meaning of the fields behind; a line        *)
(* without a known text is searched for some phrases.                      *)
(*                                                                         *)
(* A line is [stamped, time, text, fields, phrases]: whether it begins     *)
(* with a time stamp, the text before ": ", the fields between ";", and    *)
(* the phrases that it contains.  A state as written is a sequence of its  *)
(* words, of which the one in parentheses is the last: <<"OK">> or         *)
(* <<"ALERTHANDLER", "OK">>.                                               *)
(***************************************************************************)
EXTENDS Integers, Sequences, SequencesExt, Functions

\* LogEntry::Class
ClassNumber == [info |-> 0, alert |-> 1, program |-> 2, hs_notification |-> 3,
                passivecheck |-> 4, ext_command |-> 5, state |-> 6, text |-> 7,
                alert_handlers |-> 8]

LogDef(text, class, type, params) ==
    [text |-> text, class |-> class, type |-> type, params |-> params]

HostStateParams == <<"host", "hoststate", "statetype", "attempt", "output">>
ServiceStateParams == <<"host", "svc", "svcstate", "statetype", "attempt", "output">>
HostNotifyParams == <<"contact", "host", "statetype", "command", "output">>
ServiceNotifyParams == <<"contact", "host", "svc", "statetype", "command", "output">>

\* LogEntry::log_definitions
LogDefinitions ==
    {LogDef("INITIAL HOST STATE", "state", "state_host_initial", HostStateParams),
     LogDef("CURRENT HOST STATE", "state", "state_host", HostStateParams),
     LogDef("HOST ALERT", "alert", "alert_host", HostStateParams),
     LogDef("HOST DOWNTIME ALERT", "alert", "downtime_alert_host",
            <<"host", "statetype", "comment">>),
     LogDef("HOST ACKNOWLEDGE ALERT", "alert", "acknowledge_alert_host",
            <<"host", "statetype", "contact", "comment">>),
     LogDef("HOST FLAPPING ALERT", "alert", "flapping_host",
            <<"host", "statetype", "comment">>),
     LogDef("INITIAL SERVICE STATE", "state", "state_service_initial",
            ServiceStateParams),
     LogDef("CURRENT SERVICE STATE", "state", "state_service", ServiceStateParams),
     LogDef("SERVICE ALERT", "alert", "alert_service", ServiceStateParams),
     LogDef("SERVICE DOWNTIME ALERT", "alert", "downtime_alert_service",
            <<"host", "svc", "statetype", "comment">>),
     LogDef("SERVICE ACKNOWLEDGE ALERT", "alert", "acknowledge_alert_service",
            <<"host", "svc", "statetype", "contact", "comment">>),
     LogDef("SERVICE FLAPPING ALERT", "alert", "flapping_service",
            <<"host", "svc", "statetype", "comment">>),
     LogDef("TIMEPERIOD TRANSITION", "state", "timeperiod_transition", <<>>),
     LogDef("HOST NOTIFICATION", "hs_notification", "none", HostNotifyParams),
     LogDef("SERVICE NOTIFICATION", "hs_notification", "none", ServiceNotifyParams),
     LogDef("HOST NOTIFICATION RESULT", "hs_notification", "none",
            Append(HostNotifyParams, "comment")),
     LogDef("SERVICE NOTIFICATION RESULT", "hs_notification", "none",
            Append(ServiceNotifyParams, "comment")),
     LogDef("HOST NOTIFICATION PROGRESS", "hs_notification", "none",
            HostNotifyParams),
     LogDef("SERVICE NOTIFICATION PROGRESS", "hs_notification", "none",
            ServiceNotifyParams),
     LogDef("HOST ALERT HANDLER STARTED", "alert_handlers", "none",
            <<"host", "command">>),
     LogDef("SERVICE ALERT HANDLER STARTED", "alert_handlers", "none",
            <<"host", "svc", "command">>),
     LogDef("HOST ALERT HANDLER STOPPED", "alert_handlers", "none",
            <<"host", "command", "svcstate", "output">>),
     LogDef("SERVICE ALERT HANDLER STOPPED", "alert_handlers", "none",
            <<"host", "svc", "command", "svcstate", "output">>),
     LogDef("PASSIVE SERVICE CHECK", "passivecheck", "none",
            <<"host", "svc", "state", "output">>),
     LogDef("PASSIVE HOST CHECK", "passivecheck", "none",
            <<"host", "state", "output">>),
     LogDef("EXTERNAL COMMAND", "ext_command", "none", <<>>)}

------------------------------------------------------------------------------
Has(line, phrase) == phrase \in line.phrases

\* classifyLogMessage: the class and the type of a line without a known text.
\* The version of the log is behind the ": ", and belongs to the phrase.
ClassifyPhrases(line) ==
    LET Phrased(class, type) == LogDef(line.text, class, type, <<>>)
        starting == Has(line, "starting...") \/ Has(line, "active mode...")
        stopping == Has(line, "shutting down...") \/ Has(line, "Bailing out")
                        \/ Has(line, "standby mode...")
    IN  IF line.text = "LOG VERSION" /\ Has(line, "LOG VERSION: 2.0")
        THEN Phrased("program", "log_version")
        ELSE IF line.text \in {"logging initial states", "logging intitial states"}
        THEN Phrased("program", "log_initial_states")
        ELSE IF starting THEN Phrased("program", "core_starting")
        ELSE IF stopping THEN Phrased("program", "core_stopping")
        ELSE Phrased(IF Has(line, "restarting...") THEN "program" ELSE "info", "none")

DefinitionOf(line) ==
    LET known == {def \in LogDefinitions : def.text = line.text}
    IN  IF known = {} THEN ClassifyPhrases(line) ELSE CHOOSE def \in known : TRUE

\* The field that a line gives for a parameter of its definition; fields that
\* are missing are empty.
Field(def, line, par, empty) ==
    LET found == {i \in DOMAIN def.params :
                     def.params[i] = par /\ i \in DOMAIN line.fields}
    IN  IF found = {} THEN empty ELSE line.fields[CHOOSE i \in found : TRUE]

\* extractStateType
ExtractStateType(written) == Last(written)

Assoc(table, key, default) == IF key \in DOMAIN table THEN table[key] ELSE default

\* parseServiceState, and the numbers of ServiceState
ParseServiceState(written) ==
    Assoc([OK |-> 0, WARNING |-> 1, CRITICAL |-> 2, UNKNOWN |-> 3, RECOVERY |-> 0],
          ExtractStateType(written), 0)

\* parseHostState, and the numbers of HostState
ParseHostState(written) ==
    Assoc([UP |-> 0, DOWN |-> 1, UNREACHABLE |-> 2, RECOVERY |-> 0,
           OK |-> 0, WARNING |-> 1, CRITICAL |-> 2, UNKNOWN |-> 0],
          ExtractStateType(written), 0)

\* A field without a value.
NoName == ""
NoState == <<NoName>>

\* Mutant of StateType: the fields are taken as they stand.
StateTypeAsWritten(def, line) == Field(def, line, "statetype", NoState)

\* applyWorkarounds: in some notifications state type and command are swapped.
StateType(def, line) ==
    LET written == Field(def, line, "statetype", NoState)
    IN  IF def.class = "hs_notification" /\ written = <<"check-mk-notify">>
        THEN Field(def, line, "command", NoState) ELSE written

\* The number in the column state, which a notification takes from its type.
State(def, line) ==
    LET type == StateType(def, line)
        hostState == Field(def, line, "hoststate", NoState)
        serviceState == Field(def, line, "svcstate", NoState)
    IN  IF def.class = "hs_notification"
        THEN IF type = NoState THEN 0
             ELSE IF Field(def, line, "svc", NoName) = NoName THEN ParseHostState(type)
             ELSE ParseServiceState(type)
        ELSE IF hostState # NoState THEN ParseHostState(hostState)
        ELSE IF serviceState # NoState THEN ParseServiceState(serviceState)
        ELSE Field(def, line, "state", 0)

\* LogEntry::LogEntry; a line without a time stamp has the class invalid and is
\* never kept.
Entry(line, lineno) ==
    LET def == DefinitionOf(line)
    IN  [time |-> line.time, lineno |-> lineno,
         class |-> ClassNumber[def.class], type |-> def.type,
         name |-> Field(def, line, "host", NoName),
         svc |-> Field(def, line, "svc", NoName), state |-> State(def, line)]
==============================================================================
