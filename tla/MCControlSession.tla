--------------------------- MODULE MCControlSession ---------------------------
(* Small instances of ControlSession for TLC. *)
EXTENDS ControlSession

CONSTANTS
    Modes,      \* modes of the command lines
    Versions,   \* protocol versions clients speak
    Parallels,  \* --parallel values
    Durations   \* seconds a run lasts

(* Command lines differ only in what is read of them: only TCP mode reads   *)
(* `parallel`, a refused command line has no other field, and of a client   *)
(* with a foreign version the server reads nothing else.                    *)
MCOpts ==
    {o \in [version : Versions, mode : Modes, parallel : Parallels, secs : Durations] :
        /\ o.mode # "tcp"  => o.parallel = CHOOSE p \in Parallels : TRUE
        /\ o.mode = "none" => o.version = ProtocolVersion
        /\ o.mode = "none" \/ o.version # ProtocolVersion =>
              o.secs = CHOOSE d \in Durations : TRUE
        /\ o.version # ProtocolVersion =>
              /\ o.mode = CHOOSE m \in Modes \ {"none"} : TRUE
              /\ o.parallel = CHOOSE p \in Parallels : TRUE}

=============================================================================
