---- MODULE MCPBFTEngine ----
EXTENDS PBFTEngine
====
