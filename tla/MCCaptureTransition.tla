------------------------ MODULE MCCaptureTransition ------------------------
EXTENDS CaptureTransition
============================================================================
