---------------------------- MODULE MCTopicAdmin ----------------------------
EXTENDS TopicAdmin

\* Texts that say nothing of the topic's existence, as "not authorized".
OtherErrors == {{}}

\* A text that says that something is missing: connection.rs:169.
NotExist == {{"does not exist", "exist"}}
=============================================================================
