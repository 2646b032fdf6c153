SPECIFICATION CliSpec
CHECK_DEADLOCK FALSE
INVARIANT SandboxOutlivesCreate
