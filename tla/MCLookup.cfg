CONSTANTS
  Directory <- MCDirectory
  Namespace <- MCNamespace
  Key <- MCKey
SPECIFICATION Spec
INVARIANTS OffsetsSound FindsRight NamespacesRight
PROPERTIES CallsReturn
