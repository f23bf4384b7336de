\* Requests that change an item they read earlier, whatever happened since.
CONSTANTS
  a = a
  r1 = r1
  Names = {a}
  Readers = {r1}
  MaxRows = 3
  Archives <- MCArchives
  Usage = {"stale"}
SPECIFICATION Spec
PROPERTIES
  ClientFilesStayClient
