-------------------------- MODULE MCSessionRegistry --------------------------
EXTENDS SessionRegistry

CONSTANTS lane1, status1, status2, status3

MCSessions == {lane1}
MCViewers == {status1, status2, status3}
=============================================================================
