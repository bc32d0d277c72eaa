---------------------------- MODULE MCJdPipeline ----------------------------
EXTENDS JdPipeline
=============================================================================
