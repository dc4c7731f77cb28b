------------------------ MODULE MCTransformFeedback ------------------------
EXTENDS TransformFeedback, TLC

\* Clients that link programs from shaders in two contexts; that link and load a
\* program in two contexts, draw with it and capture from it; that capture from
\* two programs; and two that draw from a buffer to which calls, mappings and
\* transform feedback write, or calls and shaders.
MCClients ==
    {[operations |-> {"shaders", "link", "draw", "deleteProgram"},
      contexts |-> 2, names |-> 3, feedbacks |-> 0, ranges |-> 0],
     [operations |-> {"link", "binary", "draw", "feedback", "deleteProgram"},
      contexts |-> 2, names |-> 1, feedbacks |-> 1, ranges |-> 0],
     [operations |-> {"binary", "feedback", "deleteProgram"},
      contexts |-> 1, names |-> 2, feedbacks |-> 1, ranges |-> 0],
     [operations |-> {"binary", "draw", "feedback", "buffers", "map"},
      contexts |-> 1, names |-> 1, feedbacks |-> 0, ranges |-> 6],
     [operations |-> {"binary", "buffers", "readPixels", "dispatchCompute"},
      contexts |-> 1, names |-> 1, feedbacks |-> 0, ranges |-> 2]}

Symmetric == Permutations(Contexts) \cup Permutations(Names)
=============================================================================
