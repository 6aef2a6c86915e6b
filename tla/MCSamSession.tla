---- MODULE MCSamSession ----
\* Two datagrams come in and two go out.
EXTENDS SamSession

Out == <<"question", "answer">>
In  == <<"first", "second">>
====
