----------------------------- MODULE FilePhase -----------------------------
(***************************************************************************)
(* What the control session knows of a file run: when `drive` and `serve`  *)
(* of src/modes/file.rs return, and what either has done by then.          *)
(* ControlSession takes these steps (CFileSend, CStop, CDriveFails,        *)
(* SFileEnd, SDataFails); FileTransfer implements them byte by byte.       *)
(***************************************************************************)
VARIABLES
    sent,   \* "none" as long as bytes are missing, "all", or "short" for ever
    drive,  \* the client's: "running", "returned", "failed"
    serve   \* the server's: "running", "returned", "failed", or "stalled",
            \* waiting for what nothing can bring about

vars == <<sent, drive, serve>>

Init == sent = "none" /\ drive = "running" /\ serve = "running"

SendAll ==
    /\ drive = "running" /\ sent = "none"
    /\ sent' = "all"
    /\ UNCHANGED <<drive, serve>>

DriveReturns ==
    /\ drive = "running"
    /\ drive' = "returned"
    /\ sent' = IF sent = "all" THEN "all" ELSE "short"
    /\ serve' = serve

DriveFails ==
    /\ drive = "running"
    /\ drive' = "failed"
    /\ UNCHANGED <<sent, serve>>

ServeReturns ==
    /\ serve = "running" /\ sent = "all"
    /\ serve' = "returned"
    /\ UNCHANGED <<sent, drive>>

ServeStalls ==
    /\ serve = "running" /\ sent # "all" /\ drive # "running"
    /\ serve' = "stalled"
    /\ UNCHANGED <<sent, drive>>

ServeFails ==
    /\ serve = "running" /\ drive = "failed"
    /\ serve' = "failed"
    /\ UNCHANGED <<sent, drive>>

Next == SendAll \/ DriveReturns \/ DriveFails \/ ServeReturns \/ ServeStalls \/ ServeFails

Spec == Init /\ [][Next]_vars

=============================================================================
