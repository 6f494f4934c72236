-------------------------- MODULE MCTelemetrySync --------------------------
EXTENDS TelemetrySync
============================================================================
