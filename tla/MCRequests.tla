----------------------------- MODULE MCRequests -----------------------------
\* Constants of the runs about requests and answers.
EXTENDS Requests

CONSTANTS o1, o2, h1, a, b, c, x, y, q1, q2

\* An object of either geometry and a host, connected or not.
One(blk, l) ==
  [EmptyDb EXCEPT !.obj[o1] = [name |-> a, blk |-> blk, src |-> None],
                  !.host[h1] = [name |-> x, iqns |-> {q1}],
                  !.conn[<<o1, h1>>] = l]
Deployments == {One(512, None), One(4096, None), One(512, 0)}

Creates == [kind: {"create"}, name: {b}, blk: {0}, src: {None, a, o1}]
             \cup [kind: {"create"}, name: {a}, blk: {4096}, src: {None}]
Moves == [kind: {"delete"}, ref: {a, o1}] \cup [kind: {"rename"}, ref: {a}, name: {b, c}]
Links == [kind: {"connect"}, ref: {a, o2}, host: {x}, lun: {0}]
           \cup [kind: {"connect"}, ref: {o1}, host: {h1}, lun: {1}]
           \cup [kind: {"disconnect"}, ref: {a}, host: {x}]
Bindings == [kind: {"setBindings"}, ref: {x}, iqns: {{}, {q1, q2}}]
              \cup [kind: {"addBindings", "removeBindings"}, ref: {h1}, iqns: {{q1}}]
Clears == [kind: {"clear", "delete"}, ref: {a}]
Hosts == [kind: {"createHost"}, name: {x, y}, iqns: {{q1}, {q2}}]
           \cup [kind: {"renameHost"}, ref: {x}, name: {y}]
           \cup [kind: {"deleteHost"}, ref: {x, h1}]

\* Objects made and replaced, presentations withdrawn, hosts replaced.
\* A clear meets the links, and the delete that drops its hold.
Callers == {Creates \cup Moves, Links \cup Bindings \cup Clears, Links \cup Hosts}
=============================================================================
