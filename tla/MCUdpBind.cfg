\* udp_bind on two sockets, each initially closed, open as UDP or as TCP.
CONSTANTS
  s0 = s0
  s1 = s1
  p1 = p1
  p2 = p2
  Sockets <- MCSockets
  Ports <- MCPorts
SPECIFICATION Spec
PROPERTY BindReturnsBound
PROPERTY BindTerminates
