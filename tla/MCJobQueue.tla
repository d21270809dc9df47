------------------------------ MODULE MCJobQueue ------------------------------
EXTENDS JobQueue
MCAgents == {"a", "b"}
MCJobs   == {"j", "k"}
MCOneJob == {"j"}
===============================================================================
