------------------------- MODULE ToolOutputRestart -------------------------
(***************************************************************************)
(* The tool output mode, which a process reads once, when it starts, and   *)
(* the restart the administrator asks for after changing it (app/admin.py, *)
(* app/tool_output.py, app/main.py, app/storage.py).  The reservation of a *)
(* restart is a row of app_settings; the request goes to systemd, which    *)
(* may carry it out although the request seemed to fail.                   *)
(***************************************************************************)
CONSTANTS
  Modes,         \* the output modes
  DefaultMode,
  NoMode         \* no reservation

VARIABLES
  mode,     \* the configured mode
  pending,  \* TOOL_OUTPUT_RESTART_PENDING_SETTING
  active,   \* ACTIVE_TOOL_OUTPUT_MODE of the process
  process,  \* "down", "starting" or "up"
  asking,   \* a handler waits for its request to systemd
  queued    \* systemd has a restart to carry out

restartVars == <<mode, pending, active, process, asking, queued>>

RestartInit ==
  /\ mode = DefaultMode /\ active = DefaultMode /\ pending = NoMode
  /\ process = "up" /\ asking = FALSE /\ queued = FALSE

\* Mutant: the mode is set whether or not a restart is reserved.
SetModeAnyway(m) ==
  /\ process = "up"
  /\ mode' = m
  /\ UNCHANGED <<pending, active, process, asking, queued>>

SetMode(m) ==
  /\ process = "up" /\ pending = NoMode
  /\ mode' = m
  /\ UNCHANGED <<pending, active, process, asking, queued>>

\* api_restart_service up to the request.
Reserve ==
  /\ process = "up" /\ pending = NoMode /\ mode # active
  /\ pending' = mode
  /\ asking' = TRUE
  /\ UNCHANGED <<mode, active, process, queued>>

Requested ==
  /\ asking
  /\ asking' = FALSE /\ queued' = TRUE
  /\ UNCHANGED <<mode, pending, active, process>>

\* The request failed or ran out of time, when systemd may have it all the same.
RequestFails ==
  /\ asking
  /\ pending' = NoMode
  /\ asking' = FALSE /\ queued' \in {queued, TRUE}
  /\ UNCHANGED <<mode, active, process>>

\* The handler is cancelled: the reservation stays, with or without a restart to come.
RequestCut ==
  /\ asking
  /\ asking' = FALSE /\ queued' \in {queued, TRUE}
  /\ UNCHANGED <<mode, pending, active, process>>

\* systemd restarts the service, or the process dies.
Stop ==
  /\ process # "down"
  /\ process' = "down" /\ asking' = FALSE /\ queued' = FALSE
  /\ UNCHANGED <<mode, pending, active>>

\* The modules are imported: the mode is read and the tools are made for it.
Import ==
  /\ process = "down"
  /\ process' = "starting" /\ active' = mode
  /\ UNCHANGED <<mode, pending, asking, queued>>

\* app_lifespan: the last step before requests are served.
Serve ==
  /\ process = "starting"
  /\ process' = "up" /\ pending' = NoMode
  /\ UNCHANGED <<mode, active, asking, queued>>

RestartNext ==
  \/ \E m \in Modes : SetMode(m)
  \/ Reserve \/ Requested \/ RequestFails \/ RequestCut \/ Stop \/ Import \/ Serve

RestartSpec == RestartInit /\ [][RestartNext]_restartVars

\* A reservation is taken off at start-up only by a process that runs in the mode it was
\* made for, whatever happened to the request (api_restart_service,
\* set_tool_output_mode_if_restart_not_pending).
RestartHonoured == process = "starting" /\ pending # NoMode => active = pending
=============================================================================
