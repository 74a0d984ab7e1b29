\* Functions of four words.  The system stops when both CPUs run the program.
CONSTANT CodeLen = 4
SPECIFICATION Spec
INVARIANTS TypeOK ExecutesOneFunction NeverLost
PROPERTIES ImplementsStart BothStart
CHECK_DEADLOCK FALSE
