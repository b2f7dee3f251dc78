---------------------------- MODULE MCLoginThrottle ----------------------------
EXTENDS LoginThrottle

CONSTANTS w1, w2
================================================================================
