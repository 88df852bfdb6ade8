---------------------------- MODULE MCBackendConfig ----------------------------
EXTENDS BackendConfig

\* Four units to the minute: around zero, a minute, the default timeout and the
\* default lock, and above the default life of a state.
MCEnvDurations ==
    {-4, -1, 0, 1, 3, 4, 5, 8, 59, 60, 61, 79, 80, 81, 84, 5759, 5760, 5761, 9999}
===============================================================================
