\* Graphs of up to four operations on two inputs, with at most one explicit output.
CONSTANTS
  NumInputs = 2
  MaxOps = 4
  MaxOf <- MCMaxOf
  MaxOutputs = 1
SPECIFICATION Spec
INVARIANT TypeOK
INVARIANT MutationsPersist
INVARIANT BuffersGetTheirOwn
INVARIANT OutputsUnchanged
CHECK_DEADLOCK FALSE
