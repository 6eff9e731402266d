----------------------------- MODULE MCPoeManage -----------------------------
EXTENDS PoeManage
=============================================================================
