---- MODULE MCRemoteJobs ----
EXTENDS RemoteJobs
CONSTANTS a1, u1, u2, c1, l1, h1, h2

\* an action before an audit, two audits, both kinds of commands
MCIssued == {{a1, u1}, {u1, u2}, {c1, l1}}
====
