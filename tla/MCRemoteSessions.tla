--------------------------- MODULE MCRemoteSessions ---------------------------
(* Small instances of RemoteSessions.  A configuration names the members;     *)
(* who belongs to whom is fixed here.                                         *)
EXTENDS RemoteSessions, TLC

CONSTANTS d1, k1, o1, c1, c2, c3, s1, s2, s3

\* One socket is enough: a second one of the device is refused until the handler of
\* the first has left its receive loop or the device is revoked, and then for good.
MCSocketDevice == [k \in Sockets |-> d1]
MCDeviceOwner == [d \in Devices |-> o1]
MCConsoleOwner == [c \in Consoles |-> o1]

\* No step and no property of the runs depends on the reason a session ended for.
WithoutReasons ==
    <<[s \in Sessions |-> <<sessions[s].status, sessions[s].device, sessions[s].console>>],
      revoked, device_status, login, managerVars, socketVars, consoleVars, revoke_pc>>
=============================================================================
